---- MODULE Spec2Model ----
(***************************************************************************)
(* A model of the TileDB storage manager                                   *)
(* (core/src/storage_manager/storage_manager.cc, core/src/misc/utils.cc):  *)
(* the open-array registry with its reference counts and mutexes, the      *)
(* consolidation filelock, consolidation_finalize, and the namespace       *)
(* operations (create / move / clear / delete of workspaces, groups,       *)
(* arrays and metadata).                                                   *)
(*                                                                         *)
(* Spec    : threads of two processes running array_init, array_finalize   *)
(*           and array_consolidate on a shared filesystem.                 *)
(* SpecNs  : one caller running the namespace operations on a directory    *)
(*           tree.                                                         *)
(***************************************************************************)
EXTENDS Integers, Sequences, FiniteSets, TLC

(***************************************************************************)
(* Bounds of the model.                                                    *)
(***************************************************************************)
\* fragment timestamps are 1..MaxFrag: every consolidation uses a fresh one
MaxFrag == 3
\* Array objects (read handles) a thread may hold at once
MaxHandles == 1
\* injected failures (I/O errors, engine errors) per behaviour
MaxFail == 1

\* directories are nested at most MaxDepth deep below the root
MaxDepth == 3
\* directories that exist at once below the root
MaxDirs == 3
\* injected I/O failures of the namespace operations per behaviour
MaxNsFail == 1

Procs == {"p1", "p2"}
Threads == {"t1", "t2"}
Arrays == {"a1", "a2"}
FragIds == 1..MaxFrag
NoThread == "-"

VARIABLES
  \* ---- registry specification ----
  proc_of,       \* proc_of[t]: the process (the StorageManager) of thread t
  pc,            \* pc[t]: the statement thread t is at
  loc,           \* loc[t]: the locals of the calls thread t is in
  hnd,           \* hnd[t]: the Array objects (read mode) thread t holds
  res,           \* res[t]: what the last public call of t returned
  reg_mtx,       \* reg_mtx[p]: holder of open_array_pthread_mtx_ of process p
  open_arrays,   \* open_arrays[p]: the map open_arrays_ of process p
  flock,         \* flock[a][p]: fcntl record lock of process p on a's filelock
  fd_leak,       \* fd_leak[p][a]: an entry of p overwrote its open filelock fd
  cf_leak,       \* cf_leak[p][a]: a consolidation_finalize of p left its fd open
  array_exists,  \* arrays whose directory holds __array_schema.tdb
  frag_dirs,     \* frag_dirs[a]: fragment directories of a (by timestamp)
  frag_file,     \* frag_file[a]: those holding __tiledb_fragment.tdb
  nfail,         \* failures injected so far
  \* ---- namespace specification ----
  dirs,          \* existing directories (paths)
  files,         \* files[d]: the special files of directory d
  schema_name,   \* schema_name[d]: array_name stored in the schema file of d
  ns_res,        \* the last namespace call and its result
  ns_nfail,      \* I/O failures injected so far
  \* ---- sort_fragment_names specification ----
  sf_names,      \* the vector fragment_names the call is given (basenames)
  sf_t,          \* the value the uninitialised local t holds at entry
  sf_t_pos,      \* t_pos_vec after the timestamp loop
  sf_sorted,     \* the vector fragment_names after the call
  sf_st,         \* what the caller learns of the call: it returns void
  sf_pc,         \* "call" before, "done" after the call
  \* ---- real_dir specification ----
  rd_dir,        \* the argument dir
  rd_ret,        \* real_dir(dir)
  rd_again,      \* real_dir(real_dir(dir))
  rd_pc,         \* "call", "ret" after the first call, "done" after the second
  \* ---- ls specification ----
  ls_parent,     \* the argument parent_dir
  ls_cap,        \* the argument dir_num: the capacity of dirs and dir_types
  ls_out,        \* status, dirs with dir_types, and dir_num after the call
  ls_pc,         \* "call" before, "done" after the call
  \* ---- comparator specification ----
  cmp_in,        \* ids, coordinates and dim_num of the operands a, b, c
  cmp_out,       \* what each comparator returned for each pair of operands
  cmp_pc,        \* "call" before, "done" after the calls
  \* ---- gunzip_unknown_output_size specification ----
  gz_left,       \* bytes the stream has still to inflate
  gz_avail_out,  \* avail_out: the allocated size of the buffer out
  gz_out_size,   \* out_size: the bytes copied into out so far
  gz_inflated,   \* inflated_bytes of the chunk at hand
  gz_pc          \* "inflate", "expand", "memcpy", "done" or "crashed"

fsVars == <<array_exists, frag_dirs, frag_file>>
leakVars == <<fd_leak, cf_leak>>
regVars == <<proc_of, pc, loc, hnd, res, reg_mtx, open_arrays, flock, leakVars,
             fsVars, nfail>>
sortVars == <<sf_names, sf_t, sf_t_pos, sf_sorted, sf_st, sf_pc>>
pathVars == <<rd_dir, rd_ret, rd_again, rd_pc>>
lsVars == <<ls_parent, ls_cap, ls_out, ls_pc>>
cmpVars == <<cmp_in, cmp_out, cmp_pc>>
gzVars == <<gz_left, gz_avail_out, gz_out_size, gz_inflated, gz_pc>>
utilVars == <<sortVars, pathVars, lsVars, cmpVars, gzVars>>
nsVars == <<dirs, files, schema_name, ns_res, ns_nfail, utilVars>>
vars == <<regVars, nsVars>>

ProcOf(t) == proc_of[t]
ThreadsOf(p) == {t \in Threads : ProcOf(t) = p}

(***************************************************************************)
(* utils.cc                                                                *)
(***************************************************************************)
\* is_array(dir): the directory exists and holds the array schema file
is_array(a) == a \in array_exists

\* is_fragment without the test for the fragment file
is_fragment_any_dir(a, f) == f \in frag_dirs[a]

\* is_fragment(dir): the directory exists and holds the fragment file
is_fragment(a, f) == f \in frag_dirs[a] /\ f \in frag_file[a]

\* get_dirs(dir): the sub-directories of dir, in readdir order
RECURSIVE get_dirs_seq(_)
get_dirs_seq(S) ==
  IF S = {} THEN <<>>
  ELSE LET m == CHOOSE x \in S : \A y \in S : x >= y
       IN <<m>> \o get_dirs_seq(S \ {m})
get_dirs(a) == get_dirs_seq(frag_dirs[a])

\* get_fragment_dirs(dir): the sub-directories that are fragments
get_fragment_dirs(a) == SelectSeq(get_dirs(a), LAMBDA f : is_fragment(a, f))

(***************************************************************************)
(* StorageManager::sort_fragment_names: pairs (timestamp, position) sorted *)
(* ascending, names emitted in that order.  A fragment directory           *)
(* __<uuid>_<t> is identified here by its timestamp t.                     *)
(***************************************************************************)
\* the order of the positions alone
PairLessByPosition(x, y) == x[2] < y[2]

PairLess(x, y) == x[1] < y[1] \/ (x[1] = y[1] /\ x[2] < y[2])
RECURSIVE SortPairs(_)
SortPairs(S) ==
  IF S = {} THEN <<>>
  ELSE LET m == CHOOSE x \in S : \A y \in S \ {x} : PairLess(x, y)
       IN <<m>> \o SortPairs(S \ {m})
sort_fragment_names(fragment_names) ==
  LET t_pos_vec == {<<fragment_names[i], i>> : i \in DOMAIN fragment_names}
      sorted == SortPairs(t_pos_vec)
  IN [i \in DOMAIN fragment_names |-> fragment_names[sorted[i][2]]]

\* StorageManager::array_get_fragment_names
array_get_fragment_names(a) == sort_fragment_names(get_fragment_dirs(a))

(***************************************************************************)
(* The open-array registry                                                 *)
(***************************************************************************)
\* new OpenArray() as array_get_open_array_entry initialises it
NewOpenArray ==
  [cnt |-> 0, fragment_names |-> <<>>, array_schema |-> 0,
   book_keeping |-> <<>>, consolidation_filelock |-> -1, mtx |-> NoThread]

HasEntry(p, a) == a \in DOMAIN open_arrays[p]
Put(p, a, e) ==
  [open_arrays EXCEPT ![p] =
     [x \in (DOMAIN open_arrays[p]) \cup {a} |->
        IF x = a THEN e ELSE open_arrays[p][x]]]
Erase(p, a) ==
  [open_arrays EXCEPT ![p] =
     [x \in (DOMAIN open_arrays[p]) \ {a} |-> open_arrays[p][x]]]

\* the locals of an idle thread
IdleLoc ==
  [op |-> "none", arr |-> "a1", after |-> "none", old |-> <<>>,
   published |-> FALSE, removed |-> 0, newf |-> 0, i |-> 0, fd |-> FALSE,
   st_consolidate |-> TRUE, st_close |-> TRUE, st_cf |-> TRUE]

NoRes == [op |-> "none", st |-> "none", arr |-> "a1"]

\* the schema objects process p can still reach: a new one differs from them
SchemasInUse(p) ==
  {open_arrays[p][a].array_schema : a \in DOMAIN open_arrays[p]}
    \cup UNION {{hnd[t][i].schema : i \in DOMAIN hnd[t]} : t \in ThreadsOf(p)}
NewSchema(p) == CHOOSE i \in 1..20 : i \notin SchemasInUse(p)
                     /\ \A j \in 1..(i - 1) : j \in SchemasInUse(p)

CanFail == nfail < MaxFail

(***************************************************************************)
(* fcntl(F_SETLKW) record locks on <array>/__consolidation_lock.  A record *)
(* lock belongs to the process: a request conflicts only with the locks of *)
(* other processes, replaces the lock the calling process already holds,   *)
(* and close() of any descriptor of the file drops the process's lock.     *)
(***************************************************************************)
CanLock(p, a, lock_type) ==
  \A q \in Procs \ {p} :
     IF lock_type = "shared" THEN flock[a][q] # "excl" ELSE flock[a][q] = "none"

\* a public call of thread t returns st
Return(t, st) ==
  /\ pc' = [pc EXCEPT ![t] = "done"]
  /\ res' = [res EXCEPT ![t] = [op |-> loc[t].op, st |-> st, arr |-> loc[t].arr]]
  /\ loc' = [loc EXCEPT ![t] = IdleLoc]

\* a public call of thread t returns an error before it did anything
ReturnEarly(t, op, a) ==
  /\ pc' = [pc EXCEPT ![t] = "done"]
  /\ res' = [res EXCEPT ![t] = [op |-> op, st |-> "err", arr |-> a]]
  /\ loc' = loc

\* the caller has looked at the status of the call and goes on
Continue(t) ==
  /\ pc[t] = "done"
  /\ pc' = [pc EXCEPT ![t] = "idle"]
  /\ res' = [res EXCEPT ![t] = NoRes]
  /\ UNCHANGED <<proc_of, loc, hnd, reg_mtx, open_arrays, flock, leakVars,
                 fsVars, nfail, nsVars>>

Fail == nfail' = nfail + 1
NoFail == nfail' = nfail

(***************************************************************************)
(* StorageManager::array_init (read mode), up to the call of array_open:   *)
(* array_load_schema fails when the array does not exist or on an I/O      *)
(* error.                                                                  *)
(***************************************************************************)
array_init_enter(t, a, op) ==
  \/ /\ is_array(a)
     /\ pc' = [pc EXCEPT ![t] = "go_lock"]
     /\ loc' = [loc EXCEPT ![t] = [IdleLoc EXCEPT !.op = op, !.arr = a]]
     /\ NoFail
     /\ res' = res
  \/ /\ ~is_array(a) \/ CanFail
     /\ ReturnEarly(t, op, a)
     /\ IF is_array(a) THEN Fail ELSE NoFail

array_init(t, a) ==
  /\ pc[t] = "idle"
  /\ Len(hnd[t]) < MaxHandles
  /\ array_init_enter(t, a, "init")
  /\ UNCHANGED <<proc_of, hnd, reg_mtx, open_arrays, flock, leakVars, fsVars,
                 nsVars>>

(***************************************************************************)
(* StorageManager::array_get_open_array_entry                              *)
(***************************************************************************)
\* go_lock without open_array_mtx_lock()
go_lock_no_mutex(t) ==
  /\ pc[t] = "go_lock"
  /\ pc' = [pc EXCEPT ![t] = "go_body"]
  /\ UNCHANGED <<proc_of, loc, hnd, res, reg_mtx, open_arrays, flock, leakVars,
                 fsVars, nfail, nsVars>>

\* open_array_mtx_lock()
go_lock(t) ==
  /\ pc[t] = "go_lock"
  /\ reg_mtx[ProcOf(t)] = NoThread
  /\ reg_mtx' = [reg_mtx EXCEPT ![ProcOf(t)] = t]
  /\ pc' = [pc EXCEPT ![t] = "go_body"]
  /\ UNCHANGED <<proc_of, loc, hnd, res, open_arrays, flock, leakVars, fsVars,
                 nfail, nsVars>>

\* go_body, with the counter set instead of incremented
go_body_set(t) ==
  LET p == ProcOf(t)
      a == loc[t].arr
      e == IF HasEntry(p, a) THEN open_arrays[p][a] ELSE NewOpenArray
  IN /\ pc[t] = "go_body"
     /\ open_arrays' = Put(p, a, [e EXCEPT !.cnt = 1])
     /\ reg_mtx' = [reg_mtx EXCEPT ![p] = NoThread]
     /\ pc' = [pc EXCEPT ![t] = "ao_lock"]
     /\ UNCHANGED <<proc_of, loc, hnd, res, flock, leakVars, fsVars, nfail,
                    nsVars>>

\* go_body without open_array_mtx_unlock()
go_body_keep_mutex(t) ==
  LET p == ProcOf(t)
      a == loc[t].arr
      e == IF HasEntry(p, a) THEN open_arrays[p][a] ELSE NewOpenArray
  IN /\ pc[t] = "go_body"
     /\ open_arrays' = Put(p, a, [e EXCEPT !.cnt = e.cnt + 1])
     /\ pc' = [pc EXCEPT ![t] = "ao_lock"]
     /\ UNCHANGED <<proc_of, loc, hnd, res, reg_mtx, flock, leakVars, fsVars,
                    nfail, nsVars>>

\* find or create the entry, ++cnt_, open_array_mtx_unlock()
go_body(t) ==
  LET p == ProcOf(t)
      a == loc[t].arr
      e == IF HasEntry(p, a) THEN open_arrays[p][a] ELSE NewOpenArray
  IN /\ pc[t] = "go_body"
     /\ open_arrays' = Put(p, a, [e EXCEPT !.cnt = e.cnt + 1])
     /\ reg_mtx' = [reg_mtx EXCEPT ![p] = NoThread]
     /\ pc' = [pc EXCEPT ![t] = "ao_lock"]
     /\ UNCHANGED <<proc_of, loc, hnd, res, flock, leakVars, fsVars, nfail,
                    nsVars>>

(***************************************************************************)
(* StorageManager::array_consolidate, from the return of array_init to the *)
(* call of array_close: array->consolidate(new_fragment,                   *)
(* old_fragment_names).  The engine writes a new fragment directory,       *)
(* without its fragment file, from the fragments the Array object was      *)
(* opened with; it fails when one of them is gone.                         *)
(***************************************************************************)
SetMax(S) == IF S = {} THEN 0 ELSE CHOOSE x \in S : \A y \in S : x >= y

consolidate(t, frags) ==
  LET a == loc[t].arr
      newf == SetMax(frag_dirs[a]) + 1
      gone == \E j \in DOMAIN frags : frags[j] \notin frag_dirs[a]
  IN /\ pc' = [pc EXCEPT ![t] = "ac_lock"]
     /\ \/ /\ ~gone
           /\ IF Len(frags) = 0
                THEN /\ loc' = [loc EXCEPT ![t].after = "cons"]
                     /\ frag_dirs' = frag_dirs
                ELSE /\ loc' = [loc EXCEPT ![t].after = "cons",
                                            ![t].old = frags,
                                            ![t].newf = newf]
                     /\ frag_dirs' = [frag_dirs EXCEPT ![a] = @ \cup {newf}]
           /\ NoFail
        \/ /\ gone \/ CanFail
           /\ IF gone THEN NoFail ELSE Fail
           /\ loc' = [loc EXCEPT ![t].after = "cons",
                                 ![t].st_consolidate = FALSE]
           /\ frag_dirs' = frag_dirs

(***************************************************************************)
(* StorageManager::array_init after array_open returned Ok with the entry  *)
(* e: the Array object is built from the entry's fragment names            *)
(* (Array::init may fail: array_close and return the error).               *)
(***************************************************************************)
array_init_rest(t, e) ==
  LET array == [arr |-> loc[t].arr, frags |-> e.fragment_names,
                schema |-> e.array_schema]
  IN \/ /\ loc[t].op = "init"
        /\ hnd' = [hnd EXCEPT ![t] = Append(@, array)]
        /\ Return(t, "ok")
        /\ NoFail
        /\ frag_dirs' = frag_dirs
     \/ /\ loc[t].op = "cons"
        /\ consolidate(t, array.frags)
        /\ UNCHANGED <<hnd, res>>
     \/ /\ CanFail
        /\ Fail
        /\ loc' = [loc EXCEPT ![t].after = "init_fail"]
        /\ pc' = [pc EXCEPT ![t] = "ac_lock"]
        /\ UNCHANGED <<hnd, res, frag_dirs>>

(***************************************************************************)
(* StorageManager::array_open                                              *)
(***************************************************************************)
\* the test of array_open for "first time the array is opened"
first_time_always(open_array) == TRUE

first_time_opened(open_array) == Len(open_array.fragment_names) = 0

\* open_array->mutex_lock() and the test fragment_names_.size() == 0.
\* Not the first open: mutex_unlock() and return Ok.
\* First open: consolidation_filelock_lock(shared) begins with
\* fd = ::open(filename, O_RDWR), fd being the entry's consolidation_filelock_;
\* "Cannot open filelock" unlocks the mutex and returns the error.
ao_lock(t) ==
  LET p == ProcOf(t)
      a == loc[t].arr
      e == open_arrays[p][a]
  IN /\ pc[t] = "ao_lock"
     /\ HasEntry(p, a)
     /\ e.mtx = NoThread
     /\ IF ~first_time_opened(e)
          THEN /\ array_init_rest(t, e)
               /\ UNCHANGED <<open_arrays, fd_leak>>
          ELSE /\ fd_leak' = [fd_leak EXCEPT
                                ![p][a] = @ \/ (e.consolidation_filelock # -1)]
               /\ \/ /\ open_arrays' =
                          Put(p, a, [e EXCEPT !.consolidation_filelock = 1,
                                              !.mtx = t])
                     /\ pc' = [pc EXCEPT ![t] = "ao_fl_wait"]
                     /\ NoFail
                     /\ UNCHANGED <<loc, res>>
                  \/ /\ CanFail
                     /\ Fail
                     /\ open_arrays' =
                          Put(p, a, [e EXCEPT !.consolidation_filelock = -1])
                     /\ Return(t, "open_err")
               /\ UNCHANGED <<hnd, frag_dirs>>
     /\ UNCHANGED <<proc_of, reg_mtx, flock, cf_leak, array_exists, frag_file,
                    nsVars>>

\* consolidation_filelock_lock(shared): fcntl(fd, F_SETLKW, F_RDLCK)
ao_fl_wait(t) ==
  LET p == ProcOf(t)
      a == loc[t].arr
  IN /\ pc[t] = "ao_fl_wait"
     /\ CanLock(p, a, "shared")
     /\ flock' = [flock EXCEPT ![a][p] = "shared"]
     /\ pc' = [pc EXCEPT ![t] = "ao_load"]
     /\ UNCHANGED <<proc_of, loc, hnd, res, reg_mtx, open_arrays, leakVars,
                    fsVars, nfail, nsVars>>

\* array_get_fragment_names, array_load_schema, array_load_book_keeping,
\* mutex_unlock() and return
ao_load(t) ==
  LET p == ProcOf(t)
      a == loc[t].arr
      e == open_arrays[p][a]
      names == array_get_fragment_names(a)
      loaded == [e EXCEPT !.fragment_names = names,
                          !.array_schema = NewSchema(p),
                          !.book_keeping = names,
                          !.mtx = NoThread]
  IN /\ pc[t] = "ao_load"
     /\ HasEntry(p, a)
     /\ \/ /\ is_array(a)
           /\ open_arrays' = Put(p, a, loaded)
           /\ array_init_rest(t, loaded)
        \/ \* array_load_schema fails: RETURN_NOT_OK, the mutex stays locked
           /\ ~is_array(a) \/ CanFail
           /\ IF is_array(a) THEN Fail ELSE NoFail
           /\ open_arrays' = Put(p, a, [e EXCEPT !.fragment_names = names])
           /\ Return(t, "open_err")
           /\ UNCHANGED <<hnd, frag_dirs>>
        \/ \* array_load_book_keeping fails: the schema is deleted, the mutex
           \* unlocked
           /\ is_array(a) /\ CanFail /\ Len(names) > 0
           /\ Fail
           /\ open_arrays' =
                Put(p, a, [e EXCEPT !.fragment_names = names,
                                    !.array_schema = 0,
                                    !.book_keeping = [i \in DOMAIN names |-> 0],
                                    !.mtx = NoThread])
           /\ Return(t, "open_err")
           /\ UNCHANGED <<hnd, frag_dirs>>
     /\ UNCHANGED <<proc_of, reg_mtx, flock, leakVars, array_exists, frag_file,
                    nsVars>>

(***************************************************************************)
(* StorageManager::array_finalize (read mode): array->finalize(), then     *)
(* array_close; RETURN_NOT_OK_ELSE(array->finalize(), delete array)        *)
(* returns before array_close when the engine's finalize fails.            *)
(***************************************************************************)
RemoveAt(s, i) == [j \in 1..(Len(s) - 1) |-> IF j < i THEN s[j] ELSE s[j + 1]]

array_finalize(t, i) ==
  /\ pc[t] = "idle"
  /\ i \in DOMAIN hnd[t]
  /\ hnd' = [hnd EXCEPT ![t] = RemoveAt(@, i)]
  /\ \/ /\ loc' = [loc EXCEPT ![t] = [IdleLoc EXCEPT !.op = "fin",
                                                     !.arr = hnd[t][i].arr,
                                                     !.after = "fin"]]
        /\ pc' = [pc EXCEPT ![t] = "ac_lock"]
        /\ NoFail
        /\ res' = res
     \/ /\ CanFail
        /\ Fail
        /\ ReturnEarly(t, "fin", hnd[t][i].arr)
  /\ UNCHANGED <<proc_of, reg_mtx, open_arrays, flock, leakVars, fsVars, nsVars>>

(***************************************************************************)
(* StorageManager::array_close                                             *)
(***************************************************************************)
\* what the caller of array_close does with its status st
after_close(t, st) ==
  CASE loc[t].after = "fin" ->
         Return(t, IF st THEN "ok" ELSE "err")
    [] loc[t].after = "init_fail" ->
         Return(t, "err")
    [] OTHER ->
         /\ loc' = [loc EXCEPT ![t].st_close = st]
         /\ pc' = [pc EXCEPT ![t] = "cf_start"]
         /\ res' = res

\* array_close that looks the entry up with open_arrays_[array], which
\* inserts one
array_close_inserts(t, a) ==
  LET p == ProcOf(t)
  IN /\ pc[t] = "idle"
     /\ reg_mtx[p] = NoThread
     /\ ~HasEntry(p, a)
     /\ reg_mtx' = [reg_mtx EXCEPT ![p] = t]
     /\ open_arrays' = Put(p, a, NewOpenArray)
     /\ pc' = [pc EXCEPT ![t] = "done"]
     /\ res' = [res EXCEPT ![t] = [op |-> "close", st |-> "err", arr |-> a]]
     /\ UNCHANGED <<proc_of, loc, hnd, flock, leakVars, fsVars, nfail,
                    nsVars>>

\* a direct call of StorageManager::array_close(array) for a path that has
\* no entry when the registry is locked: open_array_mtx_lock(),
\* open_arrays_.find(), "Open array entry not found" (returned without
\* open_array_mtx_unlock()).  array_close of an entry that exists is called
\* by array_init, array_finalize and array_consolidate only.
array_close(t, a) ==
  LET p == ProcOf(t)
  IN /\ pc[t] = "idle"
     /\ reg_mtx[p] = NoThread
     /\ ~HasEntry(p, a)
     /\ reg_mtx' = [reg_mtx EXCEPT ![p] = t]
     /\ pc' = [pc EXCEPT ![t] = "done"]
     /\ res' = [res EXCEPT ![t] = [op |-> "close", st |-> "err", arr |-> a]]
     /\ UNCHANGED <<proc_of, loc, hnd, open_arrays, flock, leakVars, fsVars,
                    nfail, nsVars>>

\* open_array_mtx_lock() and open_arrays_.find(): "Open array entry not
\* found" returns without open_array_mtx_unlock()
ac_lock(t) ==
  LET p == ProcOf(t)
      a == loc[t].arr
  IN /\ pc[t] = "ac_lock"
     /\ reg_mtx[p] = NoThread
     /\ reg_mtx' = [reg_mtx EXCEPT ![p] = t]
     /\ IF HasEntry(p, a)
          THEN /\ pc' = [pc EXCEPT ![t] = "ac_elock"]
               /\ UNCHANGED <<loc, res>>
          ELSE after_close(t, FALSE)
     /\ UNCHANGED <<proc_of, hnd, open_arrays, flock, leakVars, fsVars, nfail,
                    nsVars>>

\* ac_elock without it->second->mutex_lock()
ac_elock_no_mutex(t) ==
  /\ pc[t] = "ac_elock"
  /\ pc' = [pc EXCEPT ![t] = "ac_dec"]
  /\ UNCHANGED <<proc_of, loc, hnd, res, reg_mtx, open_arrays, flock, leakVars,
                 fsVars, nfail, nsVars>>

\* it->second->mutex_lock()
ac_elock(t) ==
  LET p == ProcOf(t)
      a == loc[t].arr
      e == open_arrays[p][a]
  IN /\ pc[t] = "ac_elock"
     /\ e.mtx = NoThread
     /\ open_arrays' = Put(p, a, [e EXCEPT !.mtx = t])
     /\ pc' = [pc EXCEPT ![t] = "ac_dec"]
     /\ UNCHANGED <<proc_of, loc, hnd, res, reg_mtx, flock, leakVars, fsVars,
                    nfail, nsVars>>

\* --cnt_; at 0 the entry is destroyed and its filelock descriptor closed
\* (consolidation_filelock_unlock: close(-1) is an error); then
\* open_array_mtx_unlock()
ac_dec(t) ==
  LET p == ProcOf(t)
      a == loc[t].arr
      e == open_arrays[p][a]
  IN /\ pc[t] = "ac_dec"
     /\ reg_mtx' = [reg_mtx EXCEPT ![p] = NoThread]
     /\ IF e.cnt - 1 = 0
          THEN /\ open_arrays' = Erase(p, a)
               /\ flock' = IF e.consolidation_filelock # -1
                             THEN [flock EXCEPT ![a][p] = "none"]
                             ELSE flock
               /\ after_close(t, e.consolidation_filelock # -1)
          ELSE /\ open_arrays' = Put(p, a, [e EXCEPT !.cnt = e.cnt - 1,
                                                      !.mtx = NoThread])
               /\ flock' = flock
               /\ after_close(t, TRUE)
     /\ UNCHANGED <<proc_of, hnd, leakVars, fsVars, nfail, nsVars>>

(***************************************************************************)
(* StorageManager::array_consolidate                                       *)
(***************************************************************************)
\* threads that will still ask the engine for a new fragment of a
Consolidating(a) ==
  {t \in Threads : loc[t].op = "cons" /\ loc[t].arr = a
                    /\ pc[t] \in {"go_lock", "go_body", "ao_lock",
                                  "ao_fl_wait", "ao_load"}}

array_consolidate(t, a) ==
  /\ pc[t] = "idle"
  /\ SetMax(frag_dirs[a]) + Cardinality(Consolidating(a)) < MaxFrag
  /\ array_init_enter(t, a, "cons")
  /\ UNCHANGED <<proc_of, hnd, reg_mtx, open_arrays, flock, leakVars, fsVars,
                 nsVars>>

(***************************************************************************)
(* StorageManager::consolidation_finalize                                  *)
(***************************************************************************)
\* consolidation_finalize returns st to array_consolidate; a descriptor it
\* opened and did not close stays open in the process
cf_return(t, st) ==
  /\ loc' = [loc EXCEPT ![t].st_cf = st, ![t].fd = FALSE, ![t].i = 0]
  /\ pc' = [pc EXCEPT ![t] = "co_fin"]
  /\ cf_leak' = [cf_leak EXCEPT ![ProcOf(t)][loc[t].arr] = @ \/ loc[t].fd]

\* the trivial case, else consolidation_filelock_lock(exclusive): ::open
cf_start(t) ==
  /\ pc[t] = "cf_start"
  /\ \/ /\ Len(loc[t].old) = 0
        /\ cf_return(t, TRUE)
        /\ NoFail
     \/ /\ Len(loc[t].old) > 0
        /\ loc' = [loc EXCEPT ![t].fd = TRUE]
        /\ pc' = [pc EXCEPT ![t] = "cf_wait"]
        /\ cf_leak' = cf_leak
        /\ NoFail
     \/ /\ Len(loc[t].old) > 0
        /\ CanFail
        /\ Fail
        /\ cf_return(t, FALSE)
  /\ UNCHANGED <<proc_of, fd_leak, hnd, res, reg_mtx, open_arrays, flock,
                 fsVars, nsVars>>

\* cf_wait, with new_fragment->finalize() left out
cf_wait_skip_finalize(t) ==
  LET p == ProcOf(t)
      a == loc[t].arr
  IN /\ pc[t] = "cf_wait"
     /\ CanLock(p, a, "excl")
     /\ flock' = [flock EXCEPT ![a][p] = "excl"]
     /\ pc' = [pc EXCEPT ![t] = "cf_rm"]
     /\ loc' = [loc EXCEPT ![t].i = 1]
     /\ UNCHANGED <<proc_of, hnd, res, reg_mtx, open_arrays, leakVars,
                    fsVars, nfail, nsVars>>

\* fcntl(fd, F_SETLKW, F_WRLCK)
cf_wait(t) ==
  LET p == ProcOf(t)
      a == loc[t].arr
  IN /\ pc[t] = "cf_wait"
     /\ CanLock(p, a, "excl")
     /\ flock' = [flock EXCEPT ![a][p] = "excl"]
     /\ pc' = [pc EXCEPT ![t] = "cf_fin"]
     /\ UNCHANGED <<proc_of, loc, hnd, res, reg_mtx, open_arrays, leakVars,
                    fsVars, nfail, nsVars>>

\* cf_fin with a finalize() that returns Ok and writes no fragment file
cf_fin_no_file(t) ==
  /\ pc[t] = "cf_fin"
  /\ loc' = [loc EXCEPT ![t].i = 1, ![t].published = TRUE]
  /\ pc' = [pc EXCEPT ![t] = "cf_rm"]
  /\ UNCHANGED <<proc_of, leakVars, hnd, res, reg_mtx, open_arrays, flock,
                 fsVars, nfail, nsVars>>

\* cf_fin with a finalize() that fails after it wrote the fragment file
cf_fin_fail_writes(t) ==
  LET a == loc[t].arr
  IN /\ pc[t] = "cf_fin"
     /\ frag_file' = [frag_file EXCEPT ![a] = @ \cup {loc[t].newf}]
     /\ \/ /\ loc' = [loc EXCEPT ![t].i = 1, ![t].published = TRUE]
           /\ pc' = [pc EXCEPT ![t] = "cf_rm"]
           /\ cf_leak' = cf_leak
           /\ NoFail
        \/ /\ CanFail
           /\ Fail
           /\ cf_return(t, FALSE)
     /\ UNCHANGED <<proc_of, fd_leak, hnd, res, reg_mtx, open_arrays, flock,
                    array_exists, frag_dirs, nsVars>>

\* new_fragment->finalize(): writes the fragment file of the new fragment
cf_fin(t) ==
  LET a == loc[t].arr
  IN /\ pc[t] = "cf_fin"
     /\ \/ /\ frag_file' = [frag_file EXCEPT ![a] = @ \cup {loc[t].newf}]
           /\ loc' = [loc EXCEPT ![t].i = 1, ![t].published = TRUE]
           /\ pc' = [pc EXCEPT ![t] = "cf_rm"]
           /\ cf_leak' = cf_leak
           /\ NoFail
        \/ /\ CanFail
           /\ Fail
           /\ frag_file' = frag_file
           /\ cf_return(t, FALSE)
     /\ UNCHANGED <<proc_of, fd_leak, hnd, res, reg_mtx, open_arrays, flock,
                    array_exists, frag_dirs, nsVars>>

\* remove(old_fragment_names[i] + "/" + TILEDB_FRAGMENT_FILENAME); an error
\* (the file is not there, or an I/O error) returns with the lock held
cf_rm(t) ==
  LET a == loc[t].arr
      f == loc[t].old[loc[t].i]
      last == loc[t].i = Len(loc[t].old)
  IN /\ pc[t] = "cf_rm"
     /\ \/ /\ is_fragment(a, f)
           /\ frag_file' = [frag_file EXCEPT ![a] = @ \ {f}]
           /\ loc' = [loc EXCEPT ![t].i = IF last THEN 0 ELSE @ + 1,
                                 ![t].removed = @ + 1]
           /\ pc' = [pc EXCEPT ![t] = IF last THEN "cf_unlock" ELSE "cf_rm"]
           /\ cf_leak' = cf_leak
           /\ NoFail
        \/ /\ ~is_fragment(a, f) \/ CanFail
           /\ IF is_fragment(a, f) THEN Fail ELSE NoFail
           /\ frag_file' = frag_file
           /\ cf_return(t, FALSE)
     /\ UNCHANGED <<proc_of, fd_leak, hnd, res, reg_mtx, open_arrays, flock,
                    array_exists, frag_dirs, nsVars>>

\* consolidation_filelock_unlock(fd): close(fd)
cf_unlock(t) ==
  LET p == ProcOf(t)
      a == loc[t].arr
  IN /\ pc[t] = "cf_unlock"
     /\ flock' = [flock EXCEPT ![a][p] = "none"]
     /\ loc' = [loc EXCEPT ![t].fd = FALSE, ![t].i = 1]
     /\ pc' = [pc EXCEPT ![t] = "cf_del"]
     /\ UNCHANGED <<proc_of, hnd, res, reg_mtx, open_arrays, leakVars, fsVars,
                    nfail, nsVars>>

\* utils::delete_dir(old_fragment_names[i])
delete_dir(a, f) ==
  /\ frag_dirs' = [frag_dirs EXCEPT ![a] = @ \ {f}]
  /\ frag_file' = [frag_file EXCEPT ![a] = @ \ {f}]

cf_del(t) ==
  LET a == loc[t].arr
      f == loc[t].old[loc[t].i]
  IN /\ pc[t] = "cf_del"
     /\ \/ /\ f \in frag_dirs[a]
           /\ delete_dir(a, f)
           /\ IF loc[t].i = Len(loc[t].old)
                THEN cf_return(t, TRUE)
                ELSE /\ loc' = [loc EXCEPT ![t].i = @ + 1]
                     /\ pc' = pc
                     /\ cf_leak' = cf_leak
           /\ NoFail
        \/ /\ f \notin frag_dirs[a] \/ CanFail
           /\ IF f \in frag_dirs[a] THEN Fail ELSE NoFail
           /\ UNCHANGED <<frag_dirs, frag_file>>
           /\ cf_return(t, FALSE)
     /\ UNCHANGED <<proc_of, fd_leak, hnd, res, reg_mtx, open_arrays, flock,
                    array_exists, nsVars>>

\* the end of array_consolidate: array->finalize(), delete array, and the
\* status computed from st_array_finalize, st_array_close and
\* st_consolidation_finalize
consolidate_status(st_array_finalize, st_array_close, st_consolidation_finalize) ==
  IF ~st_array_finalize THEN "err"
  ELSE IF ~(st_array_close /\ ~st_consolidation_finalize) THEN "err"
  ELSE "ok"

co_fin(t) ==
  /\ pc[t] = "co_fin"
  /\ \/ /\ Return(t, consolidate_status(TRUE, loc[t].st_close, loc[t].st_cf))
        /\ NoFail
     \/ /\ CanFail
        /\ Fail
        /\ Return(t, consolidate_status(FALSE, loc[t].st_close, loc[t].st_cf))
  /\ UNCHANGED <<proc_of, hnd, reg_mtx, open_arrays, flock, leakVars, fsVars,
                 nsVars>>

(***************************************************************************)
(* A process is killed while one of its threads is in                      *)
(* consolidation_finalize, after the new fragment was finalized and before *)
(* the old directories are all deleted: its threads stop for good, its     *)
(* registry, descriptors and record locks are gone, the filesystem stays   *)
(* as it is.  The locals of the stopped consolidation_finalize stay on     *)
(* record.                                                                 *)
(***************************************************************************)
InFinalizePhase(t) == pc[t] \in {"cf_rm", "cf_unlock", "cf_del"}

Crash(p) ==
  /\ \E t \in ThreadsOf(p) : InFinalizePhase(t)
  /\ pc' = [t \in Threads |-> IF ProcOf(t) = p THEN "crashed" ELSE pc[t]]
  /\ loc' = [t \in Threads |->
               IF ProcOf(t) = p /\ ~InFinalizePhase(t) THEN IdleLoc ELSE loc[t]]
  /\ hnd' = [t \in Threads |-> IF ProcOf(t) = p THEN <<>> ELSE hnd[t]]
  /\ res' = [t \in Threads |-> IF ProcOf(t) = p THEN NoRes ELSE res[t]]
  /\ reg_mtx' = [reg_mtx EXCEPT ![p] = NoThread]
  /\ open_arrays' = [open_arrays EXCEPT ![p] = <<>>]
  /\ flock' = [a \in Arrays |-> [flock[a] EXCEPT ![p] = "none"]]
  /\ fd_leak' = [fd_leak EXCEPT ![p] = [a \in Arrays |-> FALSE]]
  /\ cf_leak' = [cf_leak EXCEPT ![p] = [a \in Arrays |-> FALSE]]
  /\ UNCHANGED <<proc_of, fsVars, nfail, nsVars>>

(***************************************************************************)
(* The registry specification                                              *)
(***************************************************************************)
\* no call of sort_fragment_names is under way
SortIdle ==
  /\ sf_names = <<>>
  /\ sf_t = 0
  /\ sf_t_pos = <<>>
  /\ sf_sorted = <<>>
  /\ sf_st = "none"
  /\ sf_pc = "idle"

\* no call of real_dir is under way
PathIdle ==
  /\ rd_dir = <<>>
  /\ rd_ret = <<>>
  /\ rd_again = <<>>
  /\ rd_pc = "idle"

\* no call of ls is under way
LsIdle ==
  /\ ls_parent = <<>>
  /\ ls_cap = 0
  /\ ls_out = [ok |-> TRUE, dirs |-> <<>>, dir_num |-> 0]
  /\ ls_pc = "idle"

\* no call of a comparator is under way
CmpIdle ==
  /\ cmp_in = <<>>
  /\ cmp_out = <<>>
  /\ cmp_pc = "idle"

\* no call of gunzip_unknown_output_size is under way
GzIdle ==
  /\ gz_left = 0
  /\ gz_avail_out = 0
  /\ gz_out_size = 0
  /\ gz_inflated = 0
  /\ gz_pc = "idle"

UtilIdle == SortIdle /\ PathIdle /\ LsIdle /\ CmpIdle /\ GzIdle

FsIdle ==
  /\ dirs = {}
  /\ files = {}
  /\ schema_name = <<>>
  /\ ns_res = [op |-> "none", st |-> "ok"]
  /\ ns_nfail = 0

NsIdle == FsIdle /\ UtilIdle

Init ==
  /\ proc_of \in {[t \in Threads |-> "p1"],
                  [t \in Threads |-> IF t = "t1" THEN "p1" ELSE "p2"]}
  /\ pc = [t \in Threads |-> "idle"]
  /\ loc = [t \in Threads |-> IdleLoc]
  /\ hnd = [t \in Threads |-> <<>>]
  /\ res = [t \in Threads |-> NoRes]
  /\ reg_mtx = [p \in Procs |-> NoThread]
  /\ open_arrays = [p \in Procs |-> <<>>]
  /\ flock = [a \in Arrays |-> [p \in Procs |-> "none"]]
  /\ fd_leak = [p \in Procs |-> [a \in Arrays |-> FALSE]]
  /\ cf_leak = [p \in Procs |-> [a \in Arrays |-> FALSE]]
  /\ array_exists = {"a1"}
  /\ \E F \in {{}, {1}, {1, 2}} :
        /\ frag_dirs = [a \in Arrays |-> IF a = "a1" THEN F ELSE {}]
        /\ frag_file = [a \in Arrays |-> IF a = "a1" THEN F ELSE {}]
  /\ nfail = 0
  /\ NsIdle

Next ==
  \/ \E t \in Threads : Continue(t)
  \/ \E t \in Threads, a \in Arrays : array_init(t, a)
  \/ \E t \in Threads : go_lock(t)
  \/ \E t \in Threads : go_body(t)
  \/ \E t \in Threads : ao_lock(t)
  \/ \E t \in Threads : ao_fl_wait(t)
  \/ \E t \in Threads : ao_load(t)
  \/ \E t \in Threads, i \in 1..MaxHandles : array_finalize(t, i)
  \/ \E t \in Threads : ac_lock(t)
  \/ \E t \in Threads : ac_elock(t)
  \/ \E t \in Threads : ac_dec(t)
  \/ \E t \in Threads, a \in Arrays : array_consolidate(t, a)
  \/ \E t \in Threads : cf_start(t)
  \/ \E t \in Threads : cf_wait(t)
  \/ \E t \in Threads : cf_fin(t)
  \/ \E t \in Threads : cf_rm(t)
  \/ \E t \in Threads : cf_unlock(t)
  \/ \E t \in Threads : cf_del(t)
  \/ \E t \in Threads : co_fin(t)
  \/ \E p \in Procs : Crash(p)

Spec == Init /\ [][Next]_vars

(***************************************************************************)
(* The registry specification with direct calls of array_close for paths   *)
(* that have no entry                                                      *)
(***************************************************************************)
NextClose ==
  \/ Next
  \/ \E t \in Threads, a \in Arrays : array_close(t, a)

SpecClose == Init /\ [][NextClose]_vars

(***************************************************************************)
(* StorageManager::metadata_init in write mode.  The metadata is the array *)
(* that implements it.  array_open is not called and open_array stays      *)
(* nullptr; open_array->fragment_names_ and open_array->book_keeping_ are   *)
(* formed from the null pointer: the call goes on with references nobody   *)
(* reads, or the process ends with a segmentation fault.  When             *)
(* metadata->init fails, array_close(metadata_dir) is called.              *)
(***************************************************************************)
\* metadata_init in write mode that calls array_close only in read mode
metadata_init_write_no_close(t, a) ==
  /\ pc[t] = "idle"
  /\ \/ /\ ~is_array(a)
        /\ ReturnEarly(t, "minit_w", a)
        /\ NoFail
     \/ /\ is_array(a)
        /\ pc' = [pc EXCEPT ![t] = "done"]
        /\ res' = [res EXCEPT ![t] = [op |-> "minit_w", st |-> "ok", arr |-> a]]
        /\ loc' = loc
        /\ NoFail
     \/ /\ is_array(a)
        /\ CanFail
        /\ Fail
        /\ ReturnEarly(t, "minit_w", a)
  /\ UNCHANGED <<proc_of, hnd, reg_mtx, open_arrays, flock, leakVars, fsVars,
                 nsVars>>

metadata_init_write(t, a) ==
  /\ pc[t] = "idle"
  /\ \/ /\ ~is_array(a)
        /\ ReturnEarly(t, "minit_w", a)
        /\ NoFail
        /\ UNCHANGED <<proc_of, hnd, reg_mtx, open_arrays, flock, leakVars,
                       fsVars, nsVars>>
     \/ /\ is_array(a)
        /\ pc' = [pc EXCEPT ![t] = "done"]
        /\ res' = [res EXCEPT ![t] = [op |-> "minit_w", st |-> "ok", arr |-> a]]
        /\ loc' = loc
        /\ NoFail
        /\ UNCHANGED <<proc_of, hnd, reg_mtx, open_arrays, flock, leakVars,
                       fsVars, nsVars>>
     \/ /\ is_array(a)
        /\ CanFail
        /\ Fail
        /\ loc' = [loc EXCEPT ![t] = [IdleLoc EXCEPT !.op = "minit_w",
                                                     !.arr = a,
                                                     !.after = "init_fail"]]
        /\ pc' = [pc EXCEPT ![t] = "ac_lock"]
        /\ res' = res
        /\ UNCHANGED <<proc_of, hnd, reg_mtx, open_arrays, flock, leakVars,
                       fsVars, nsVars>>
     \/ /\ is_array(a)
        /\ CanFail
        /\ nfail' = nfail + 1
        /\ pc' = [u \in Threads |->
                    IF ProcOf(u) = ProcOf(t) THEN "crashed" ELSE pc[u]]
        /\ loc' = [u \in Threads |->
                     IF ProcOf(u) = ProcOf(t) /\ ~InFinalizePhase(u)
                       THEN IdleLoc ELSE loc[u]]
        /\ hnd' = [u \in Threads |->
                     IF ProcOf(u) = ProcOf(t) THEN <<>> ELSE hnd[u]]
        /\ res' = [u \in Threads |->
                     IF ProcOf(u) = ProcOf(t) THEN NoRes ELSE res[u]]
        /\ reg_mtx' = [reg_mtx EXCEPT ![ProcOf(t)] = NoThread]
        /\ open_arrays' = [open_arrays EXCEPT ![ProcOf(t)] = <<>>]
        /\ flock' = [b \in Arrays |-> [flock[b] EXCEPT ![ProcOf(t)] = "none"]]
        /\ fd_leak' = [fd_leak EXCEPT ![ProcOf(t)] = [b \in Arrays |-> FALSE]]
        /\ cf_leak' = [cf_leak EXCEPT ![ProcOf(t)] = [b \in Arrays |-> FALSE]]
        /\ UNCHANGED <<proc_of, fsVars, nsVars>>

\* array_open of thread t goes on with the pointer open_array after the
\* array_close of a failed metadata_init has deleted the OpenArray: the
\* process ends, or the call reads what the freed object held and returns
\* an error or an Array object
ao_dangling(t) ==
  LET p == ProcOf(t)
      a == loc[t].arr
  IN /\ pc[t] \in {"ao_lock", "ao_fl_wait", "ao_load"}
     /\ ~HasEntry(p, a)
     /\ \/ /\ Return(t, "open_err")
           /\ UNCHANGED <<proc_of, hnd, reg_mtx, open_arrays, flock, leakVars,
                          fsVars, nfail, nsVars>>
        \/ /\ loc[t].op = "init"
           /\ hnd' = [hnd EXCEPT ![t] =
                        Append(@, [arr |-> a, frags |-> <<>>, schema |-> 0])]
           /\ Return(t, "ok")
           /\ UNCHANGED <<proc_of, reg_mtx, open_arrays, flock, leakVars,
                          fsVars, nfail, nsVars>>
        \/ /\ pc' = [u \in Threads |->
                       IF ProcOf(u) = p THEN "crashed" ELSE pc[u]]
           /\ loc' = [u \in Threads |->
                        IF ProcOf(u) = p /\ ~InFinalizePhase(u)
                          THEN IdleLoc ELSE loc[u]]
           /\ hnd' = [u \in Threads |-> IF ProcOf(u) = p THEN <<>> ELSE hnd[u]]
           /\ res' = [u \in Threads |-> IF ProcOf(u) = p THEN NoRes ELSE res[u]]
           /\ reg_mtx' = [reg_mtx EXCEPT ![p] = NoThread]
           /\ open_arrays' = [open_arrays EXCEPT ![p] = <<>>]
           /\ flock' = [b \in Arrays |-> [flock[b] EXCEPT ![p] = "none"]]
           /\ fd_leak' = [fd_leak EXCEPT ![p] = [b \in Arrays |-> FALSE]]
           /\ cf_leak' = [cf_leak EXCEPT ![p] = [b \in Arrays |-> FALSE]]
           /\ UNCHANGED <<proc_of, fsVars, nfail, nsVars>>

NextMeta ==
  \/ Next
  \/ \E t \in Threads, a \in Arrays : metadata_init_write(t, a)
  \/ \E t \in Threads : ao_dangling(t)

SpecMeta == Init /\ [][NextMeta]_vars

(***************************************************************************)
(* Opens and closes of two threads of process p1 while a                   *)
(* consolidation_finalize of another process holds the exclusive filelock  *)
(* of a1 and does not return it.  No call fails.  Every thread that can    *)
(* take a step of the call it is in eventually takes it: a runnable thread *)
(* is scheduled, and pthread_mutex_lock and fcntl(F_SETLKW) return once    *)
(* the lock stays free.                                                    *)
(***************************************************************************)
InitLive ==
  /\ proc_of = [t \in Threads |-> "p1"]
  /\ pc = [t \in Threads |-> "idle"]
  /\ loc = [t \in Threads |-> IdleLoc]
  /\ hnd = [t \in Threads |-> <<>>]
  /\ res = [t \in Threads |-> NoRes]
  /\ reg_mtx = [p \in Procs |-> NoThread]
  /\ open_arrays = [p \in Procs |-> <<>>]
  /\ flock = [a \in Arrays |->
               [p \in Procs |->
                  IF a = "a1" /\ p = "p2" THEN "excl" ELSE "none"]]
  /\ fd_leak = [p \in Procs |-> [a \in Arrays |-> FALSE]]
  /\ cf_leak = [p \in Procs |-> [a \in Arrays |-> FALSE]]
  /\ array_exists = Arrays
  /\ \E F1 \in {{}, {1}, {1, 2}}, F2 \in {{}, {1}, {1, 2}} :
        /\ frag_dirs = [a \in Arrays |-> IF a = "a1" THEN F1 ELSE F2]
        /\ frag_file = [a \in Arrays |-> IF a = "a1" THEN F1 ELSE F2]
  /\ nfail = MaxFail
  /\ NsIdle

\* a step of thread t inside array_init or array_finalize
ThreadStep(t) ==
  \/ go_lock(t)
  \/ go_body(t)
  \/ ao_lock(t)
  \/ ao_fl_wait(t)
  \/ ao_load(t)
  \/ ac_lock(t)
  \/ ac_elock(t)
  \/ ac_dec(t)

NextLive ==
  \/ \E t \in Threads : Continue(t)
  \/ \E t \in Threads, a \in Arrays : array_init(t, a)
  \/ \E t \in Threads, i \in 1..MaxHandles : array_finalize(t, i)
  \/ \E t \in Threads : go_lock(t)
  \/ \E t \in Threads : go_body(t)
  \/ \E t \in Threads : ao_lock(t)
  \/ \E t \in Threads : ao_fl_wait(t)
  \/ \E t \in Threads : ao_load(t)
  \/ \E t \in Threads : ac_lock(t)
  \/ \E t \in Threads : ac_elock(t)
  \/ \E t \in Threads : ac_dec(t)

SpecLive ==
  InitLive /\ [][NextLive]_vars /\ \A t \in Threads : WF_vars(ThreadStep(t))

(***************************************************************************)
(* The registry specification with scheduling.  A thread that can again   *)
(* and again take a step of the call it is in eventually takes it: a       *)
(* runnable thread is scheduled, and a thread waiting in                   *)
(* pthread_mutex_lock or fcntl(F_SETLKW) is not passed over for ever when  *)
(* the lock is free again and again (the behaviours of weak fairness       *)
(* include these, so a call that never returns here never returns under    *)
(* weak fairness either).  A caller goes on after a return, and the owner  *)
(* of a handle eventually finalizes it.  No process is killed.             *)
(***************************************************************************)
\* a step of thread t inside array_consolidate
ConsolidateStep(t) ==
  \/ cf_start(t)
  \/ cf_wait(t)
  \/ cf_fin(t)
  \/ cf_rm(t)
  \/ cf_unlock(t)
  \/ cf_del(t)
  \/ co_fin(t)

NextFair ==
  \/ \E t \in Threads : Continue(t)
  \/ \E t \in Threads, a \in Arrays : array_init(t, a)
  \/ \E t \in Threads, i \in 1..MaxHandles : array_finalize(t, i)
  \/ \E t \in Threads, a \in Arrays : array_consolidate(t, a)
  \/ \E t \in Threads : ThreadStep(t)
  \/ \E t \in Threads : ConsolidateStep(t)

SpecFair ==
  /\ Init
  /\ [][NextFair]_vars
  /\ \A t \in Threads :
        /\ SF_vars(ThreadStep(t) \/ ConsolidateStep(t) \/ Continue(t))
        /\ SF_vars(\E i \in 1..MaxHandles : array_finalize(t, i))

(***************************************************************************)
(* The namespace: directories are paths (sequences of names) below the     *)
(* root, which is a plain directory; files holds the special files that    *)
(* make a directory a workspace, a group, an array or a metadata.          *)
(***************************************************************************)
NameOrder == <<"x", "y">>
Names == {NameOrder[i] : i \in DOMAIN NameOrder}
Paths == UNION {[1..n -> Names] : n \in 1..MaxDepth}
Root == <<>>

WORKSPACE_FILENAME == "__tiledb_workspace.tdb"
GROUP_FILENAME == "__tiledb_group.tdb"
ARRAY_SCHEMA_FILENAME == "__array_schema.tdb"
METADATA_SCHEMA_FILENAME == "__metadata_schema.tdb"

\* the filesystem the operations below work on
FS == [dirs |-> dirs, files |-> files, schema_name |-> schema_name]

IsPrefix(p, d) == Len(p) <= Len(d) /\ SubSeq(d, 1, Len(p)) = p

\* utils::parent_dir of a canonical path
parent_dir(d) == SubSeq(d, 1, Len(d) - 1)

is_dir(fs, d) == d = Root \/ d \in fs.dirs
is_file(fs, d, name) == <<d, name>> \in fs.files
is_workspace(fs, d) == is_dir(fs, d) /\ is_file(fs, d, WORKSPACE_FILENAME)
is_group(fs, d) == is_dir(fs, d) /\ is_file(fs, d, GROUP_FILENAME)
is_array_dir(fs, d) == is_dir(fs, d) /\ is_file(fs, d, ARRAY_SCHEMA_FILENAME)
is_metadata(fs, d) == is_dir(fs, d) /\ is_file(fs, d, METADATA_SCHEMA_FILENAME)

\* utils::create_dir: mkdir of a directory that is not there yet (and there
\* is room for it)
create_dir_ok(fs, d) ==
  /\ ~is_dir(fs, d)
  /\ is_dir(fs, parent_dir(d))
  /\ Cardinality(fs.dirs) < MaxDirs
create_dir(fs, d) == [fs EXCEPT !.dirs = @ \cup {d}]

\* ::open(dir + "/" + name, O_WRONLY | O_CREAT | O_SYNC) and ::close
create_file(fs, d, name) == [fs EXCEPT !.files = @ \cup {<<d, name>>}]

\* remove(dir + "/" + name)
remove_file(fs, d, name) == [fs EXCEPT !.files = @ \ {<<d, name>>}]

\* utils::delete_dir: the directory and all it holds
delete_tree(fs, d) ==
  [dirs |-> {e \in fs.dirs : ~IsPrefix(d, e)},
   files |-> {f \in fs.files : ~IsPrefix(d, f[1])},
   schema_name |-> [e \in {x \in DOMAIN fs.schema_name : ~IsPrefix(d, x)} |->
                      fs.schema_name[e]]]

\* readdir: the sub-directories of d, in directory order
entries(fs, d) ==
  SelectSeq([i \in DOMAIN NameOrder |-> Append(d, NameOrder[i])],
            LAMBDA c : c \in fs.dirs)

Ok(fs) == [fs |-> fs, ok |-> TRUE]
Err(fs) == [fs |-> fs, ok |-> FALSE]

\* StorageManager::metadata_clear: a metadata of this model holds no
\* fragments, so every sub-directory is "non TileDB related"
metadata_clear(fs, metadata) ==
  IF ~is_metadata(fs, metadata) THEN Err(fs)
  ELSE IF Len(entries(fs, metadata)) > 0 THEN Err(fs)
  ELSE Ok(fs)

\* StorageManager::metadata_delete
metadata_delete(fs, metadata) ==
  LET c == metadata_clear(fs, metadata)
  IN IF c.ok THEN Ok(delete_tree(c.fs, metadata)) ELSE c

\* the readdir loop of array_clear: the status of metadata_delete is
\* dropped
RECURSIVE array_clear_loop(_, _)
array_clear_loop(fs, todo) ==
  IF Len(todo) = 0 THEN Ok(fs)
  ELSE IF is_metadata(fs, Head(todo))
         THEN array_clear_loop(metadata_delete(fs, Head(todo)).fs, Tail(todo))
         ELSE Err(fs)

\* StorageManager::array_clear
array_clear(fs, array) ==
  IF ~is_array_dir(fs, array) THEN Err(fs)
  ELSE array_clear_loop(fs, entries(fs, array))

\* StorageManager::array_delete
array_delete(fs, array) ==
  LET c == array_clear(fs, array)
  IN IF c.ok THEN Ok(delete_tree(c.fs, array)) ELSE c

RECURSIVE group_clear(_, _)
RECURSIVE group_delete(_, _)
RECURSIVE clear_loop(_, _)

\* the readdir loop of group_clear and of workspace_clear
clear_loop(fs, todo) ==
  IF Len(todo) = 0 THEN Ok(fs)
  ELSE LET filename == Head(todo)
           r == IF is_group(fs, filename) THEN group_delete(fs, filename)
                ELSE IF is_metadata(fs, filename)
                       THEN metadata_delete(fs, filename)
                ELSE IF is_array_dir(fs, filename)
                       THEN array_delete(fs, filename)
                ELSE Err(fs)
       IN IF r.ok THEN clear_loop(r.fs, Tail(todo)) ELSE r

\* StorageManager::group_clear
group_clear(fs, group) ==
  IF ~is_group(fs, group) THEN Err(fs)
  ELSE IF is_workspace(fs, group) THEN Err(fs)
  ELSE clear_loop(fs, entries(fs, group))

\* StorageManager::group_delete
group_delete(fs, group) ==
  LET c == group_clear(fs, group)
  IN IF c.ok THEN Ok(delete_tree(c.fs, group)) ELSE c

\* StorageManager::workspace_clear
workspace_clear(fs, workspace) == clear_loop(fs, entries(fs, workspace))

\* StorageManager::workspace_delete
workspace_delete(fs, workspace) ==
  IF ~is_workspace(fs, workspace) THEN Err(fs)
  ELSE LET c == workspace_clear(fs, workspace)
       IN IF c.ok THEN Ok(delete_tree(c.fs, workspace)) ELSE c

\* rename(old, new): fails when new lies below old or its parent is missing
rename_ok(fs, old, new) == ~IsPrefix(old, new) /\ is_dir(fs, parent_dir(new))
Moved(old, new, d) == new \o SubSeq(d, Len(old) + 1, Len(d))
rename(fs, old, new) ==
  LET to(d) == IF IsPrefix(old, d) THEN Moved(old, new, d) ELSE d
      from(e) == CHOOSE d \in DOMAIN fs.schema_name : to(d) = e
  IN [dirs |-> {to(d) : d \in fs.dirs},
      files |-> {<<to(f[1]), f[2]>> : f \in fs.files},
      schema_name |-> [e \in {to(d) : d \in DOMAIN fs.schema_name} |->
                         fs.schema_name[from(e)]]]

\* StorageManager::array_store_schema: remove() of the schema file, then
\* ::open, ::write, ::close of the new one, which may fail
array_store_schema(fs, dir, name, fails) ==
  LET removed == remove_file(fs, dir, ARRAY_SCHEMA_FILENAME)
      gone == [removed EXCEPT !.schema_name =
                 [e \in DOMAIN @ \ {dir} |-> @[e]]]
  IN IF fails THEN Err(gone)
     ELSE Ok([create_file(fs, dir, ARRAY_SCHEMA_FILENAME) EXCEPT
                !.schema_name = [e \in DOMAIN @ \cup {dir} |->
                                   IF e = dir THEN name ELSE @[e]]])

\* the common end of array_move and metadata_move: array_load_schema of the
\* new directory (an error when it holds no array schema file),
\* set_array_name, array_store_schema
move_schema(fs, new, fails) ==
  IF ~is_array_dir(fs, new) THEN Err(fs)
  ELSE array_store_schema(fs, new, new, fails)

\* StorageManager::workspace_move
workspace_move(fs, old, new) ==
  IF ~is_workspace(fs, old) THEN Err(fs)
  ELSE IF is_dir(fs, new) THEN Err(fs)
  ELSE IF \/ is_workspace(fs, parent_dir(new)) \/ is_group(fs, parent_dir(new))
          \/ is_array_dir(fs, parent_dir(new))
          \/ is_metadata(fs, parent_dir(new))
         THEN Err(fs)
  ELSE IF ~rename_ok(fs, old, new) THEN Err(fs)
  ELSE Ok(rename(fs, old, new))

\* StorageManager::group_move
group_move(fs, old, new) ==
  IF is_workspace(fs, old) THEN Err(fs)
  ELSE IF ~is_group(fs, old) THEN Err(fs)
  ELSE IF is_dir(fs, new) THEN Err(fs)
  ELSE IF ~is_group(fs, parent_dir(new)) /\ ~is_workspace(fs, parent_dir(new))
         THEN Err(fs)
  ELSE IF ~rename_ok(fs, old, new) THEN Err(fs)
  ELSE Ok(rename(fs, old, new))

\* StorageManager::array_move
array_move(fs, old, new, fails) ==
  IF ~is_array_dir(fs, old) THEN Err(fs)
  ELSE IF is_dir(fs, new) THEN Err(fs)
  ELSE IF ~is_group(fs, parent_dir(new)) /\ ~is_workspace(fs, parent_dir(new))
         THEN Err(fs)
  ELSE IF ~rename_ok(fs, old, new) THEN Err(fs)
  ELSE move_schema(rename(fs, old, new), new, fails)

\* StorageManager::metadata_move
metadata_move(fs, old, new, fails) ==
  IF ~is_metadata(fs, old) THEN Err(fs)
  ELSE IF is_dir(fs, new) THEN Err(fs)
  ELSE IF /\ ~is_group(fs, parent_dir(new))
          /\ ~is_workspace(fs, parent_dir(new))
          /\ ~is_array_dir(fs, parent_dir(new))
         THEN Err(fs)
  ELSE IF ~rename_ok(fs, old, new) THEN Err(fs)
  ELSE move_schema(rename(fs, old, new), new, fails)

(***************************************************************************)
(* The calls of the namespace specification                                *)
(***************************************************************************)
NsCanFail == ns_nfail < MaxNsFail

\* a call op(dir) ends with the filesystem and status of r; failed tells
\* whether an I/O failure was injected
NsReturn(op, dir, r, failed) ==
  /\ dirs' = r.fs.dirs
  /\ files' = r.fs.files
  /\ schema_name' = r.fs.schema_name
  /\ ns_res' = [op |-> op, st |-> IF r.ok THEN "ok" ELSE "err"]
  /\ ns_nfail' = IF failed THEN ns_nfail + 1 ELSE ns_nfail
  /\ UNCHANGED <<regVars, utilVars>>

\* StorageManager::workspace_create
workspace_create(workspace) ==
  \E fails \in {f \in BOOLEAN : f => NsCanFail} :
     LET parent == parent_dir(workspace)
         made == create_dir(FS, workspace)
     IN IF \/ is_workspace(FS, parent) \/ is_group(FS, parent)
           \/ is_array_dir(FS, parent) \/ is_metadata(FS, parent)
          THEN ~fails /\ NsReturn("workspace_create", workspace, Err(FS), FALSE)
        ELSE IF ~create_dir_ok(FS, workspace)
          THEN ~fails /\ NsReturn("workspace_create", workspace, Err(FS), FALSE)
        ELSE IF fails
          THEN NsReturn("workspace_create", workspace, Err(made), TRUE)
        ELSE NsReturn("workspace_create", workspace,
                      Ok(create_file(made, workspace, WORKSPACE_FILENAME)),
                      FALSE)

\* group_create without the test of the parent directory
group_create_unchecked(group) ==
  \E fails \in {f \in BOOLEAN : f => NsCanFail} :
     LET made == create_dir(FS, group)
     IN IF ~create_dir_ok(FS, group)
          THEN ~fails /\ NsReturn("group_create", group, Err(FS), FALSE)
        ELSE IF fails
          THEN NsReturn("group_create", group, Err(made), TRUE)
        ELSE NsReturn("group_create", group,
                      Ok(create_file(made, group, GROUP_FILENAME)), FALSE)

\* StorageManager::group_create
group_create(group) ==
  \E fails \in {f \in BOOLEAN : f => NsCanFail} :
     LET parent == parent_dir(group)
         made == create_dir(FS, group)
     IN IF ~is_workspace(FS, parent) /\ ~is_group(FS, parent)
          THEN ~fails /\ NsReturn("group_create", group, Err(FS), FALSE)
        ELSE IF ~create_dir_ok(FS, group)
          THEN ~fails /\ NsReturn("group_create", group, Err(FS), FALSE)
        ELSE IF fails
          THEN NsReturn("group_create", group, Err(made), TRUE)
        ELSE NsReturn("group_create", group,
                      Ok(create_file(made, group, GROUP_FILENAME)), FALSE)

\* StorageManager::array_create, for a schema whose array_name is dir
array_create(dir) ==
  \E fails \in {f \in BOOLEAN : f => NsCanFail} :
     LET parent == parent_dir(dir)
         made == create_dir(FS, dir)
     IN IF ~is_workspace(FS, parent) /\ ~is_group(FS, parent)
          THEN ~fails /\ NsReturn("array_create", dir, Err(FS), FALSE)
        ELSE IF ~create_dir_ok(FS, dir)
          THEN ~fails /\ NsReturn("array_create", dir, Err(FS), FALSE)
        ELSE NsReturn("array_create", dir,
                      array_store_schema(made, dir, dir, fails), fails)

\* StorageManager::metadata_create, for a schema whose array_name is dir
metadata_create(dir) ==
  \E fails \in {f \in BOOLEAN : f => NsCanFail} :
     LET parent == parent_dir(dir)
         made == create_dir(FS, dir)
         stored == [create_file(made, dir, METADATA_SCHEMA_FILENAME) EXCEPT
                      !.schema_name = [e \in DOMAIN @ \cup {dir} |->
                                         IF e = dir THEN dir ELSE @[e]]]
     IN IF /\ ~is_workspace(FS, parent) /\ ~is_group(FS, parent)
           /\ ~is_array_dir(FS, parent)
          THEN ~fails /\ NsReturn("metadata_create", dir, Err(FS), FALSE)
        ELSE IF ~create_dir_ok(FS, dir)
          THEN ~fails /\ NsReturn("metadata_create", dir, Err(FS), FALSE)
        ELSE IF fails
          THEN NsReturn("metadata_create", dir, Err(made), TRUE)
        ELSE NsReturn("metadata_create", dir, Ok(stored), FALSE)

\* StorageManager::clear
clear(dir) ==
  NsReturn("clear", dir,
           IF is_workspace(FS, dir) THEN workspace_clear(FS, dir)
           ELSE IF is_group(FS, dir) THEN group_clear(FS, dir)
           ELSE IF is_array_dir(FS, dir) THEN array_clear(FS, dir)
           ELSE IF is_metadata(FS, dir) THEN metadata_clear(FS, dir)
           ELSE Err(FS),
           FALSE)

\* StorageManager::delete_entire
delete_entire(dir) ==
  NsReturn("delete_entire", dir,
           IF is_workspace(FS, dir) THEN workspace_delete(FS, dir)
           ELSE IF is_group(FS, dir) THEN group_delete(FS, dir)
           ELSE IF is_array_dir(FS, dir) THEN array_delete(FS, dir)
           ELSE IF is_metadata(FS, dir) THEN metadata_delete(FS, dir)
           ELSE Err(FS),
           FALSE)

\* the directories below old stay within MaxDepth when old becomes new
FitsDepth(old, new) ==
  \A d \in dirs : IsPrefix(old, d) => Len(Moved(old, new, d)) <= MaxDepth

\* StorageManager::move
move_result(old_dir, new_dir, fails) ==
  IF is_workspace(FS, old_dir) THEN workspace_move(FS, old_dir, new_dir)
  ELSE IF is_group(FS, old_dir) THEN group_move(FS, old_dir, new_dir)
  ELSE IF is_array_dir(FS, old_dir)
         THEN array_move(FS, old_dir, new_dir, fails)
  ELSE IF is_metadata(FS, old_dir)
         THEN metadata_move(FS, old_dir, new_dir, fails)
  ELSE Err(FS)

\* a failure is injected only in a call that gets to array_store_schema
move(old_dir, new_dir) ==
  /\ FitsDepth(old_dir, new_dir)
  /\ \E fails \in BOOLEAN :
        /\ fails => /\ NsCanFail
                    /\ move_result(old_dir, new_dir, TRUE)
                         # move_result(old_dir, new_dir, FALSE)
        /\ NsReturn("move", old_dir, move_result(old_dir, new_dir, fails),
                    fails)

(***************************************************************************)
(* The namespace specification                                             *)
(***************************************************************************)
RegIdle ==
  /\ proc_of = [t \in Threads |-> "p1"]
  /\ pc = [t \in Threads |-> "idle"]
  /\ loc = [t \in Threads |-> IdleLoc]
  /\ hnd = [t \in Threads |-> <<>>]
  /\ res = [t \in Threads |-> NoRes]
  /\ reg_mtx = [p \in Procs |-> NoThread]
  /\ open_arrays = [p \in Procs |-> <<>>]
  /\ flock = [a \in Arrays |-> [p \in Procs |-> "none"]]
  /\ fd_leak = [p \in Procs |-> [a \in Arrays |-> FALSE]]
  /\ cf_leak = [p \in Procs |-> [a \in Arrays |-> FALSE]]
  /\ array_exists = {}
  /\ frag_dirs = [a \in Arrays |-> {}]
  /\ frag_file = [a \in Arrays |-> {}]
  /\ nfail = 0

InitNs == RegIdle /\ NsIdle

NextNs ==
  \/ \E d \in Paths : workspace_create(d)
  \/ \E d \in Paths : group_create(d)
  \/ \E d \in Paths : array_create(d)
  \/ \E d \in Paths : metadata_create(d)
  \/ \E d \in Paths : clear(d)
  \/ \E d \in Paths : delete_entire(d)
  \/ \E d \in Paths, e \in Paths : move(d, e)

SpecNs == InitNs /\ [][NextNs]_vars

(***************************************************************************)
(* StorageManager::sort_fragment_names on the names themselves.  A name is *)
(* the basename of a fragment directory (the part after parent_dir and     *)
(* the '/'), a sequence of characters.                                     *)
(***************************************************************************)
MaxNames == 3

DigitChars == <<"0", "1", "2", "3", "4", "5", "6", "7", "8", "9">>
IsDigit(c) == \E d \in DOMAIN DigitChars : DigitChars[d] = c
DigitVal(c) == (CHOOSE d \in DOMAIN DigitChars : DigitChars[d] = c) - 1

\* the value of a sequence of digits
RECURSIVE Decimal(_)
Decimal(str) ==
  IF Len(str) = 0 THEN 0
  ELSE 10 * Decimal(SubSeq(str, 1, Len(str) - 1)) + DigitVal(str[Len(str)])

\* the number of digits str starts with
RECURSIVE LeadingDigits(_)
LeadingDigits(str) ==
  IF Len(str) = 0 \/ ~IsDigit(Head(str)) THEN 0
  ELSE 1 + LeadingDigits(Tail(str))

\* sscanf(t_str.c_str(), "%lld", &t), its return value ignored: t gets the
\* value of the digits t_str starts with and keeps its value when there are
\* none
sscanf_lld(t_str, t) ==
  IF LeadingDigits(t_str) = 0 THEN t
  ELSE Decimal(SubSeq(t_str, 1, LeadingDigits(t_str)))

\* the timestamp loop from fragment i (0-based) on: the first '_' at an
\* index j >= 2 ends the search, the text after it is scanned into t and
\* t_pos_vec[i] becomes (t, i); a name without such a '_' leaves
\* t_pos_vec[i] as resize() made it, (0, 0)
RECURSIVE timestamp_loop(_, _, _)
timestamp_loop(fragment_names, i, t) ==
  IF i >= Len(fragment_names) THEN <<>>
  ELSE LET stripped_fragment_name == fragment_names[i + 1]
           found == {j \in 2..(Len(stripped_fragment_name) - 1) :
                       stripped_fragment_name[j + 1] = "_"}
       IN IF found = {}
            THEN <<<<0, 0>>>> \o timestamp_loop(fragment_names, i + 1, t)
            ELSE LET j == CHOOSE x \in found : \A y \in found : x <= y
                     t_str == SubSeq(stripped_fragment_name, j + 2,
                                     Len(stripped_fragment_name))
                     scanned == sscanf_lld(t_str, t)
                 IN <<<<scanned, i>>>>
                      \o timestamp_loop(fragment_names, i + 1, scanned)

\* SORT(t_pos_vec.begin(), t_pos_vec.end()) and the copy of the names in
\* that order
sorted_by(fragment_names, pairs) ==
  LET sorted == SortSeq(pairs, PairLess)
  IN [i \in DOMAIN fragment_names |-> fragment_names[sorted[i][2] + 1]]

\* the fragment names of the specification: "__" uuid "_" field, where the
\* uuid may hold a '_' and the field is a timestamp, empty, or not a number;
\* and a name without '_' after the prefix
Uuids == {<<"u">>, <<"v">>, <<"u", "_", "v">>}
TimestampFields == {<<"1">>, <<"2">>, <<"1", "2">>, <<>>, <<"x">>, <<"1", "x">>}
FragNames ==
  {<<"_", "_">> \o u \o <<"_">> \o f : u \in Uuids, f \in TimestampFields}
    \cup {<<"_", "_", "u">>}

\* the values an uninitialised t can hold
Garbage == {0, 2, 7}

\* StorageManager::sort_fragment_names(fragment_names), as
\* array_get_fragment_names calls it: both return void, so the caller goes
\* on as after a success
sort_fragment_names_call ==
  /\ sf_pc = "call"
  /\ sf_st' = "ok"
  /\ sf_t_pos' = timestamp_loop(sf_names, 0, sf_t)
  /\ sf_sorted' = sorted_by(sf_names, timestamp_loop(sf_names, 0, sf_t))
  /\ sf_pc' = "done"
  /\ UNCHANGED <<regVars, dirs, files, schema_name, ns_res, ns_nfail,
                 sf_names, sf_t, pathVars, lsVars, cmpVars, gzVars>>

\* the sub-directories of an array have different names
InitSort ==
  /\ RegIdle
  /\ FsIdle
  /\ PathIdle
  /\ LsIdle
  /\ CmpIdle
  /\ GzIdle
  /\ sf_names \in {s \in UNION {[1..n -> FragNames] : n \in 0..MaxNames} :
                     \A i \in DOMAIN s, j \in DOMAIN s : s[i] = s[j] => i = j}
  /\ sf_t \in Garbage
  /\ sf_t_pos = <<>>
  /\ sf_sorted = <<>>
  /\ sf_st = "none"
  /\ sf_pc = "call"

NextSort == sort_fragment_names_call

SpecSort == InitSort /\ [][NextSort]_vars

(***************************************************************************)
(* utils::real_dir.  A path is a sequence of characters.                   *)
(***************************************************************************)
MaxPathLen == 6

\* the characters of the arguments
PathChars == {"/", ".", "~", "a"}

\* getcwd() and getenv("HOME") of the process
current_dir == <<"/", "c">>
home == <<"/", "h">>
root == <<"/">>

\* starts_with(value, prefix)
starts_with(value, prefix) ==
  IF Len(prefix) > Len(value) THEN FALSE
  ELSE SubSeq(value, 1, Len(prefix)) = prefix

both_slashes(a, b) == a = "/" /\ b = "/"

\* adjacent_slashes_dedup: std::unique keeps the first of each run of
\* elements that both_slashes calls equal
RECURSIVE adjacent_slashes_dedup(_)
adjacent_slashes_dedup(value) ==
  IF Len(value) <= 1 THEN value
  ELSE IF both_slashes(value[1], value[2])
         THEN adjacent_slashes_dedup(Tail(value))
         ELSE <<Head(value)>> \o adjacent_slashes_dedup(Tail(value))

\* the tokenizer of purge_dots_from_path: the non-empty pieces of str
\* between its '/'; token is the piece read so far
RECURSIVE tokenize(_, _)
tokenize(str, token) ==
  IF Len(str) = 0
    THEN IF token # <<>> THEN <<token>> ELSE <<>>
    ELSE IF Head(str) = "/"
           THEN (IF token # <<>> THEN <<token>> ELSE <<>>)
                  \o tokenize(Tail(str), <<>>)
           ELSE tokenize(Tail(str), Append(token, Head(str)))

\* the loop "Purge dots" with '..' kept as a token
RECURSIVE purge_keep_dotdot(_, _)
purge_keep_dotdot(tokens, final_tokens) ==
  IF Len(tokens) = 0 THEN [invalid |-> FALSE, final_tokens |-> final_tokens]
  ELSE IF Head(tokens) = <<".">>
         THEN purge_keep_dotdot(Tail(tokens), final_tokens)
       ELSE purge_keep_dotdot(Tail(tokens), Append(final_tokens, Head(tokens)))

\* the loop "Purge dots": invalid when a '..' finds final_tokens empty
RECURSIVE purge(_, _)
purge(tokens, final_tokens) ==
  IF Len(tokens) = 0 THEN [invalid |-> FALSE, final_tokens |-> final_tokens]
  ELSE IF Head(tokens) = <<".">>
         THEN purge(Tail(tokens), final_tokens)
       ELSE IF Head(tokens) = <<".", ".">>
         THEN IF Len(final_tokens) = 0
                THEN [invalid |-> TRUE, final_tokens |-> <<>>]
                ELSE purge(Tail(tokens),
                           SubSeq(final_tokens, 1, Len(final_tokens) - 1))
       ELSE purge(Tail(tokens), Append(final_tokens, Head(tokens)))

\* "Assemble final path"
RECURSIVE assemble(_, _)
assemble(final_tokens, i) ==
  IF i > Len(final_tokens) THEN <<>>
  ELSE (IF i # 1 THEN <<"/">> ELSE <<>>) \o final_tokens[i]
         \o assemble(final_tokens, i + 1)

\* purge_dots_from_path(path), for a path that starts with '/'
purge_dots_from_path(path) ==
  IF Len(path) = 0 \/ path = <<"/">> THEN path
  ELSE LET purged == purge(tokenize(Tail(path), <<>>), <<>>)
       IN IF purged.invalid THEN <<>>
          ELSE <<"/">> \o assemble(purged.final_tokens, 1)

\* real_dir(dir)
real_dir(dir) ==
  IF dir = <<>> \/ dir = <<".">> \/ dir = <<".", "/">> THEN current_dir
  ELSE IF dir = <<"~">> THEN home
  ELSE IF dir = <<"/">> THEN root
  ELSE LET ret_dir ==
             IF starts_with(dir, <<"/">>) THEN root \o dir
             ELSE IF starts_with(dir, <<"~", "/">>)
                    THEN home \o SubSeq(dir, 2, Len(dir))
             ELSE IF starts_with(dir, <<".", "/">>)
                    THEN current_dir \o SubSeq(dir, 2, Len(dir))
             ELSE current_dir \o <<"/">> \o dir
       IN purge_dots_from_path(adjacent_slashes_dedup(ret_dir))

\* ret = real_dir(dir)
real_dir_call ==
  /\ rd_pc = "call"
  /\ rd_ret' = real_dir(rd_dir)
  /\ rd_pc' = "ret"
  /\ UNCHANGED <<regVars, dirs, files, schema_name, ns_res, ns_nfail,
                 sortVars, lsVars, cmpVars, gzVars, rd_dir, rd_again>>

\* real_dir(ret)
real_dir_again ==
  /\ rd_pc = "ret"
  /\ rd_again' = real_dir(rd_ret)
  /\ rd_pc' = "done"
  /\ UNCHANGED <<regVars, dirs, files, schema_name, ns_res, ns_nfail,
                 sortVars, lsVars, cmpVars, gzVars, rd_dir, rd_ret>>

InitPath ==
  /\ RegIdle
  /\ FsIdle
  /\ SortIdle
  /\ LsIdle
  /\ CmpIdle
  /\ GzIdle
  /\ rd_dir \in UNION {[1..n -> PathChars] : n \in 0..MaxPathLen}
  /\ rd_ret = <<>>
  /\ rd_again = <<>>
  /\ rd_pc = "call"

NextPath == real_dir_call \/ real_dir_again

SpecPath == InitPath /\ [][NextPath]_vars

(***************************************************************************)
(* StorageManager::ls                                                      *)
(***************************************************************************)
MaxLsCap == 3

\* the names of the sub-directories, in readdir order
LsNames == <<"x", "y", "z">>

\* readdir(dir) without "." and "..": the sub-directories and the files of
\* d, as the paths ls tests
readdir(fs, d) ==
  SelectSeq([i \in DOMAIN LsNames |-> Append(d, LsNames[i])],
            LAMBDA c : c \in fs.dirs)
    \o SelectSeq(<<Append(d, WORKSPACE_FILENAME), Append(d, GROUP_FILENAME),
                   Append(d, ARRAY_SCHEMA_FILENAME),
                   Append(d, METADATA_SCHEMA_FILENAME)>>,
                 LAMBDA f : <<d, f[Len(f)]>> \in fs.files)

\* the type ls gives an entry: the tests are made in this order
ls_type(fs, filename) ==
  IF is_group(fs, filename) THEN "group"
  ELSE IF is_metadata(fs, filename) THEN "metadata"
  ELSE IF is_array_dir(fs, filename) THEN "array"
  ELSE IF is_workspace(fs, filename) THEN "workspace"
  ELSE "none"

\* the readdir loop of ls without the test dir_i == dir_num
RECURSIVE ls_loop_unchecked(_, _, _, _)
ls_loop_unchecked(fs, todo, dir_num, out) ==
  IF Len(todo) = 0 THEN [ok |-> TRUE, dirs |-> out, dir_num |-> Len(out)]
  ELSE LET filename == Head(todo)
       IN IF ls_type(fs, filename) = "none"
            THEN ls_loop_unchecked(fs, Tail(todo), dir_num, out)
          ELSE ls_loop_unchecked(fs, Tail(todo), dir_num,
                       Append(out, <<filename[Len(filename)],
                                     ls_type(fs, filename)>>))

\* the readdir loop of ls: out holds dirs and dir_types up to dir_i
RECURSIVE ls_loop(_, _, _, _)
ls_loop(fs, todo, dir_num, out) ==
  IF Len(todo) = 0 THEN [ok |-> TRUE, dirs |-> out, dir_num |-> Len(out)]
  ELSE LET filename == Head(todo)
       IN IF ls_type(fs, filename) = "none"
            THEN ls_loop(fs, Tail(todo), dir_num, out)
          ELSE IF Len(out) = dir_num
            THEN [ok |-> FALSE, dirs |-> out, dir_num |-> dir_num]
          ELSE ls_loop(fs, Tail(todo), dir_num,
                       Append(out, <<filename[Len(filename)],
                                     ls_type(fs, filename)>>))

\* StorageManager::ls(parent_dir, dirs, dir_types, dir_num): a directory
\* that cannot be opened gives Ok with dir_num = 0
ls(fs, parent, dir_num) ==
  IF ~is_dir(fs, parent) THEN [ok |-> TRUE, dirs |-> <<>>, dir_num |-> 0]
  ELSE ls_loop(fs, readdir(fs, parent), dir_num, <<>>)

ls_call ==
  /\ ls_pc = "call"
  /\ ls_out' = ls(FS, ls_parent, ls_cap)
  /\ ls_pc' = "done"
  /\ UNCHANGED <<regVars, dirs, files, schema_name, ns_res, ns_nfail,
                 sortVars, pathVars, cmpVars, gzVars,
                 ls_parent, ls_cap>>

\* the special file that makes a directory an entity of kind k
MarkerOf(k) ==
  CASE k = "workspace" -> WORKSPACE_FILENAME
    [] k = "group" -> GROUP_FILENAME
    [] k = "array" -> ARRAY_SCHEMA_FILENAME
    [] k = "metadata" -> METADATA_SCHEMA_FILENAME

\* the directory /x as the create calls can leave it: a workspace whose
\* sub-directories are groups, arrays (with a metadata inside when inner),
\* metadata or plain directories (left by a create that failed after
\* mkdir), or a plain directory that holds workspaces and plain directories
LsParent == <<"x">>
LsKinds(parent_kind) ==
  IF parent_kind = "workspace"
    THEN {"none", "plain", "group", "array", "metadata"}
    ELSE {"none", "plain", "workspace"}

LsEntities(kind) ==
  {i \in DOMAIN LsNames : kind[i] \notin {"none", "plain"}}

LsInner(kind, inner) ==
  IF inner THEN {i \in DOMAIN LsNames : kind[i] = "array"} ELSE {}

LsFs(parent_kind, kind, inner) ==
  [dirs |-> {LsParent}
              \cup {Append(LsParent, LsNames[i]) :
                      i \in {j \in DOMAIN LsNames : kind[j] # "none"}}
              \cup {LsParent \o <<LsNames[i], "x">> : i \in LsInner(kind, inner)},
   files |-> (IF parent_kind = "plain" THEN {}
              ELSE {<<LsParent, MarkerOf(parent_kind)>>})
              \cup {<<Append(LsParent, LsNames[i]), MarkerOf(kind[i])>> :
                      i \in LsEntities(kind)}
              \cup {<<LsParent \o <<LsNames[i], "x">>, METADATA_SCHEMA_FILENAME>> :
                      i \in LsInner(kind, inner)},
   schema_name |-> <<>>]

InitLs ==
  /\ RegIdle
  /\ SortIdle
  /\ PathIdle
  /\ CmpIdle
  /\ GzIdle
  /\ ns_res = [op |-> "none", st |-> "ok"]
  /\ ns_nfail = 0
  /\ \E parent_kind \in {"workspace", "plain"}, inner \in BOOLEAN :
        \E kind \in [DOMAIN LsNames -> LsKinds(parent_kind)] :
           /\ dirs = LsFs(parent_kind, kind, inner).dirs
           /\ files = LsFs(parent_kind, kind, inner).files
           /\ schema_name = <<>>
  /\ ls_parent \in {LsParent, <<"y">>}
  /\ ls_cap \in 0..MaxLsCap
  /\ ls_out = [ok |-> TRUE, dirs |-> <<>>, dir_num |-> 0]
  /\ ls_pc = "call"

NextLs == ls_call

SpecLs == InitLs /\ [][NextLs]_vars

(***************************************************************************)
(* clear and delete_entire on a workspace whose metadata may hold what a   *)
(* consolidation leaves when delete_dir of an old fragment fails: a        *)
(* fragment directory without its fragment file                            *)
(***************************************************************************)
\* what a sub-directory of the workspace /x is: nothing, a plain directory,
\* a metadata (clean, or with a directory without fragment file), or a
\* group or an array that is empty or holds such a metadata
ClearShapes ==
  {<<"none", "none">>, <<"plain", "none">>, <<"metadata", "none">>,
   <<"metadata", "orphan">>}
    \cup {<<k, m>> : k \in {"group", "array"},
                     m \in {"none", "metadata", "metadata_orphan"}}

ClearWs == <<"x">>

\* the directories and special files of the sub-directory c of shape sh
ShapeDirs(c, sh) ==
  (IF sh[1] = "none" THEN {} ELSE {c})
    \cup (IF sh[2] \in {"metadata", "orphan", "metadata_orphan"}
            THEN {Append(c, "x")} ELSE {})
    \cup (IF sh[2] = "metadata_orphan" THEN {c \o <<"x", "x">>} ELSE {})

ShapeFiles(c, sh) ==
  (IF sh[1] \in {"group", "array", "metadata"} THEN {<<c, MarkerOf(sh[1])>>} ELSE {})
    \cup (IF sh[2] \in {"metadata", "metadata_orphan"}
            THEN {<<Append(c, "x"), METADATA_SCHEMA_FILENAME>>} ELSE {})

InitClear ==
  /\ RegIdle
  /\ UtilIdle
  /\ ns_res = [op |-> "none", st |-> "ok"]
  /\ ns_nfail = 0
  /\ \E sx \in ClearShapes, sy \in ClearShapes :
        /\ dirs = {ClearWs} \cup ShapeDirs(<<"x", "x">>, sx)
                             \cup ShapeDirs(<<"x", "y">>, sy)
        /\ files = {<<ClearWs, WORKSPACE_FILENAME>>}
                      \cup ShapeFiles(<<"x", "x">>, sx)
                      \cup ShapeFiles(<<"x", "y">>, sy)
        /\ schema_name =
             [d \in {c \in {<<"x", "x">>, <<"x", "y">>} :
                       <<c, ARRAY_SCHEMA_FILENAME>> \in
                          ShapeFiles(<<"x", "x">>, sx)
                            \cup ShapeFiles(<<"x", "y">>, sy)} |-> d]

NextClear ==
  \/ \E d \in Paths : clear(d)
  \/ \E d \in Paths : delete_entire(d)

SpecClear == InitClear /\ [][NextClear]_vars

(***************************************************************************)
(* utils::cmp_col_order, utils::cmp_row_order and cmp_row_order with ids,  *)
(* for T = int.  Coordinates are sequences indexed from 1.                 *)
(***************************************************************************)
MaxDim == 3
MaxCoord == 1
MaxId == 1

\* the loop of cmp_col_order from index i down
RECURSIVE col_loop(_, _, _)
col_loop(coords_a, coords_b, i) ==
  IF i < 1 THEN 0
  ELSE IF coords_a[i] < coords_b[i] THEN -1
  ELSE IF coords_a[i] > coords_b[i] THEN 1
  ELSE col_loop(coords_a, coords_b, i - 1)

cmp_col_order(coords_a, coords_b, dim_num) ==
  col_loop(coords_a, coords_b, dim_num)

\* the loop of cmp_row_order without the test coords_a[i] > coords_b[i]
RECURSIVE row_loop_lt_only(_, _, _, _)
row_loop_lt_only(coords_a, coords_b, i, dim_num) ==
  IF i > dim_num THEN 0
  ELSE IF coords_a[i] < coords_b[i] THEN -1
  ELSE row_loop_lt_only(coords_a, coords_b, i + 1, dim_num)

\* the loop of cmp_row_order from index i up
RECURSIVE row_loop(_, _, _, _)
row_loop(coords_a, coords_b, i, dim_num) ==
  IF i > dim_num THEN 0
  ELSE IF coords_a[i] < coords_b[i] THEN -1
  ELSE IF coords_a[i] > coords_b[i] THEN 1
  ELSE row_loop(coords_a, coords_b, i + 1, dim_num)

cmp_row_order(coords_a, coords_b, dim_num) ==
  row_loop(coords_a, coords_b, 1, dim_num)

cmp_row_order_id(id_a, coords_a, id_b, coords_b, dim_num) ==
  IF id_a < id_b THEN -1
  ELSE IF id_a > id_b THEN 1
  ELSE row_loop(coords_a, coords_b, 1, dim_num)

\* the pairs of operands the comparators are called with
CmpPairs == {<<"a", "b">>, <<"b", "a">>, <<"b", "c">>, <<"a", "c">>}

cmp_call ==
  /\ cmp_pc = "call"
  /\ cmp_out' =
       [row |-> [pr \in CmpPairs |->
                   cmp_row_order(cmp_in[pr[1]].coords, cmp_in[pr[2]].coords,
                                 cmp_in.dim_num)],
        col |-> [pr \in CmpPairs |->
                   cmp_col_order(cmp_in[pr[1]].coords, cmp_in[pr[2]].coords,
                                 cmp_in.dim_num)],
        id |-> [pr \in CmpPairs |->
                  cmp_row_order_id(cmp_in[pr[1]].id, cmp_in[pr[1]].coords,
                                   cmp_in[pr[2]].id, cmp_in[pr[2]].coords,
                                   cmp_in.dim_num)]]
  /\ cmp_pc' = "done"
  /\ UNCHANGED <<regVars, dirs, files, schema_name, ns_res, ns_nfail,
                 sortVars, pathVars, lsVars, gzVars, cmp_in>>

InitCmp ==
  /\ RegIdle
  /\ FsIdle
  /\ SortIdle
  /\ PathIdle
  /\ LsIdle
  /\ GzIdle
  /\ \E dim_num \in 1..MaxDim :
        \E a, b, c \in [id : 0..MaxId,
                        coords : [1..dim_num -> (0 - MaxCoord)..MaxCoord]] :
           cmp_in = [a |-> a, b |-> b, c |-> c, dim_num |-> dim_num]
  /\ cmp_out = <<>>
  /\ cmp_pc = "call"

NextCmp == cmp_call

SpecCmp == InitCmp /\ [][NextCmp]_vars

(***************************************************************************)
(* utils::gunzip_unknown_output_size and utils::expand_buffer.  The model  *)
(* keeps the sizes: the bytes the stream has still to inflate, the         *)
(* allocated size of out and the bytes copied into it.                     *)
(***************************************************************************)
\* the size of the local array chunk
TILEDB_GZIP_CHUNK_SIZE == 4
\* the largest allocated size of out at entry
MaxAvailOut == 6
\* the largest size of the inflated data
MaxInflated == 12

Min(a, b) == IF a < b THEN a ELSE b

\* expand_buffer(buffer, buffer_allocated_size): the allocated size doubles
expand_buffer(buffer_allocated_size) == 2 * buffer_allocated_size

\* the variables of the other specifications
GzOthers == <<regVars, dirs, files, schema_name, ns_res, ns_nfail, sortVars,
              pathVars, lsVars, cmpVars>>

\* inflate(&strm, Z_FINISH) into chunk: fills the chunk while the stream
\* has data; inflated_bytes = TILEDB_GZIP_CHUNK_SIZE - strm.avail_out
gz_inflate ==
  /\ gz_pc = "inflate"
  /\ gz_inflated' = Min(gz_left, TILEDB_GZIP_CHUNK_SIZE)
  /\ gz_left' = gz_left - Min(gz_left, TILEDB_GZIP_CHUNK_SIZE)
  /\ gz_pc' = IF Min(gz_left, TILEDB_GZIP_CHUNK_SIZE) # 0 THEN "expand"
              ELSE "done"
  /\ UNCHANGED <<GzOthers, gz_avail_out, gz_out_size>>

\* if (out_size + inflated_bytes > avail_out) expand_buffer(out, avail_out),
\* once
gz_expand ==
  /\ gz_pc = "expand"
  /\ gz_avail_out' = IF gz_out_size + gz_inflated > gz_avail_out
                       THEN expand_buffer(gz_avail_out)
                       ELSE gz_avail_out
  /\ gz_pc' = "memcpy"
  /\ UNCHANGED <<GzOthers, gz_left, gz_out_size, gz_inflated>>

\* memcpy(out + out_size, chunk, inflated_bytes); out_size += inflated_bytes
\* and the loop test strm.avail_out == 0.  A copy past the allocated size
\* is undefined: the call goes on, or the process stops.
gz_memcpy ==
  /\ gz_pc = "memcpy"
  /\ \/ /\ gz_out_size' = gz_out_size + gz_inflated
        /\ gz_pc' = IF gz_inflated = TILEDB_GZIP_CHUNK_SIZE THEN "inflate"
                    ELSE "done"
     \/ /\ gz_out_size + gz_inflated > gz_avail_out
        /\ gz_out_size' = gz_out_size
        /\ gz_pc' = "crashed"
  /\ UNCHANGED <<GzOthers, gz_left, gz_avail_out, gz_inflated>>

\* the call starts with out_size = 0
InitGunzip ==
  /\ RegIdle
  /\ FsIdle
  /\ SortIdle
  /\ PathIdle
  /\ LsIdle
  /\ CmpIdle
  /\ gz_left \in 0..MaxInflated
  /\ gz_avail_out \in 1..MaxAvailOut
  /\ gz_out_size = 0
  /\ gz_inflated = 0
  /\ gz_pc = "inflate"

NextGunzip ==
  \/ gz_inflate
  \/ gz_expand
  \/ gz_memcpy

SpecGunzip == InitGunzip /\ [][NextGunzip]_vars

(***************************************************************************)
(* Properties of the registry specification                                *)
(***************************************************************************)
\* the Array objects thread t holds on array a
HandlesOn(t, a) == Cardinality({i \in DOMAIN hnd[t] : hnd[t][i].arr = a})

\* thread t is between the ++cnt_ of array_get_open_array_entry and the
\* --cnt_ of array_close, on array a
InCall(t, a) ==
  /\ loc[t].arr = a
  /\ pc[t] \in {"ao_lock", "ao_fl_wait", "ao_load", "ac_lock", "ac_elock",
                "ac_dec"}

\* opens of array a in process p that were not closed yet
Opens(p, a) ==
  Cardinality({<<t, i>> \in ThreadsOf(p) \X (1..MaxHandles) :
                 i \in DOMAIN hnd[t] /\ hnd[t][i].arr = a})
  + Cardinality({t \in ThreadsOf(p) : InCall(t, a)})

\* C1: as long as no call has failed, the entry of an array exists exactly
\* when opens of it are not closed yet, and its refcount is their number:
\* N opens and N closes leave no entry, N opens and N-1 closes leave an
\* entry with refcount 1.
C1_Refcount ==
  nfail = 0 =>
    \A p \in Procs, a \in Arrays :
       IF HasEntry(p, a)
         THEN open_arrays[p][a].cnt = Opens(p, a) /\ Opens(p, a) >= 1
         ELSE Opens(p, a) = 0

\* two opens and one close: one thread still holds the array, the other
\* has finalized its own, and the entry has refcount 1
C1_Witness ==
  /\ nfail = 0
  /\ ProcOf("t1") = ProcOf("t2")
  /\ Len(hnd["t1"]) = 1 /\ hnd["t1"][1].arr = "a1" /\ pc["t1"] = "idle"
  /\ pc["t2"] = "done" /\ res["t2"].op = "fin" /\ res["t2"].st = "ok"
  /\ res["t2"].arr = "a1"
  /\ HasEntry("p1", "a1") /\ open_arrays["p1"]["a1"].cnt = 1

\* thread t takes the step
Acts(t) == pc'[t] # pc[t] \/ loc'[t] # loc[t]

\* a step removes the fragment file of f and leaves its directory
RemovesMarker(a, f) ==
  f \in frag_file[a] /\ f \notin frag_file'[a] /\ f \in frag_dirs'[a]

\* a step deletes the directory of f
DeletesDir(a, f) == f \in frag_dirs[a] /\ f \notin frag_dirs'[a]

Range(s) == {s[i] : i \in DOMAIN s}

\* C2 (the order of consolidation_finalize): a fragment file is removed
\* only by a consolidation_finalize that lists the fragment as old and whose
\* new fragment has its fragment file; a fragment directory is deleted only
\* by a consolidation_finalize that lists it as old, after the fragment file
\* of every old fragment was removed and the call's lock was released.
C2_StepOrder ==
  \A a \in Arrays, f \in FragIds :
     /\ RemovesMarker(a, f) =>
          \E t \in Threads :
             /\ Acts(t) /\ loc[t].arr = a /\ f \in Range(loc[t].old)
             /\ loc[t].newf \in frag_file[a]
             /\ loc[t].fd
     /\ DeletesDir(a, f) =>
          \E t \in Threads :
             /\ Acts(t) /\ loc[t].arr = a /\ f \in Range(loc[t].old)
             /\ \A g \in Range(loc[t].old) : g \notin frag_file[a]
             /\ ~loc[t].fd

InExclusivePhase(u, a) ==
  loc[u].arr = a /\ pc[u] \in {"cf_fin", "cf_rm", "cf_unlock"}

\* the step is the return of an array_open of thread t that did the first
\* open (it loaded the fragment names, the schema and the book-keeping)
FirstOpenReturnsOk(t) ==
  /\ pc[t] = "ao_load"
  /\ \/ pc'[t] = "ac_lock"
     \/ pc'[t] = "done" /\ res'[t].st = "ok"

\* C3 as stated: while a consolidation_finalize is in its exclusive phase
\* on an array, no first open of that array returns.
C3_StepNoFirstOpen ==
  \A t \in Threads :
     FirstOpenReturnsOk(t) =>
        ~ \E u \in Threads \ {t} : InExclusivePhase(u, loc[t].arr)

C3_NoFirstOpenInExclusivePhase == [][C3_StepNoFirstOpen]_vars

\* C4 as stated: no state has a consolidation_finalize of thread B in its
\* exclusive phase on an array while another thread A holds an Array object
\* (read mode) of that array.
C4_NoExclusiveWhileOpen ==
  \A A \in Threads, B \in Threads, a \in Arrays :
     (A # B /\ HandlesOn(A, a) > 0) => ~InExclusivePhase(B, a)

\* C5: as long as a reader holds an Array object that was built from a
\* non-empty fragment list, the entry of its array exists and its fragment
\* list is the one the reader was given, whatever consolidation_finalize
\* has done to the fragments in the meantime.
C5_ReaderKeepsList ==
  \A t \in Threads :
     \A i \in DOMAIN hnd[t] :
        Len(hnd[t][i].frags) > 0 =>
           /\ HasEntry(ProcOf(t), hnd[t][i].arr)
           /\ open_arrays[ProcOf(t)][hnd[t][i].arr].fragment_names
                = hnd[t][i].frags

\* a reader holds the list <<1, 2>> and both fragments were consolidated:
\* their files and directories are gone
C5_Witness ==
  \E t \in Threads :
     /\ Len(hnd[t]) = 1
     /\ hnd[t][1].frags = <<1, 2>>
     /\ frag_dirs[hnd[t][1].arr] = {3}
     /\ frag_file[hnd[t][1].arr] = {3}

\* the fragment directories of a that hold the fragment file
Markers(a) == {f \in frag_dirs[a] : f \in frag_file[a]}

\* the step stores the fragment names of a first open of thread t
LoadsNames(t) ==
  /\ pc[t] = "ao_load"
  /\ Acts(t)
  /\ loc[t].arr \in DOMAIN open_arrays'[ProcOf(t)]

LoadedNames(t) == open_arrays'[ProcOf(t)][loc[t].arr].fragment_names

\* the exclusive phase of the consolidation_finalize of u has completed
CompletedPhase(u) ==
  /\ pc[u] \in {"cf_del", "co_fin"}
  /\ loc[u].published
  /\ loc[u].removed = Len(loc[u].old)

\* no fragment of a newer than f is visible
NoNewer(a, f) == \A g \in Markers(a) : g <= f

\* C6: the fragment names a first open stores are exactly the fragment
\* directories that hold the fragment file when they are enumerated, each
\* once; when the exclusive phase of a consolidation has completed (and no
\* later consolidation has published a newer fragment), they hold its new
\* fragment and none of its old fragments.
C6_StepLoad ==
  \A t \in Threads :
     LoadsNames(t) =>
        /\ Range(LoadedNames(t)) = Markers(loc[t].arr)
        /\ Len(LoadedNames(t)) = Cardinality(Markers(loc[t].arr))
        /\ \A u \in Threads \ {t} :
              (CompletedPhase(u) /\ loc[u].arr = loc[t].arr) =>
                 /\ Range(loc[u].old) \cap Range(LoadedNames(t)) = {}
                 /\ NoNewer(loc[t].arr, loc[u].newf) =>
                      loc[u].newf \in Range(LoadedNames(t))

Stopped(u) ==
  /\ loc[u].published
  /\ \/ pc[u] = "crashed"
     \/ pc[u] = "co_fin" /\ ~loc[u].st_cf

\* C7: when a consolidation_finalize stopped after its new fragment was
\* published, a first open lists the new fragment (unless a later
\* consolidation has published a newer one), none of the old fragments
\* whose fragment file the call had removed, and no directory without
\* fragment file.
C7_StepLoad ==
  \A t \in Threads :
     LoadsNames(t) =>
        \A u \in Threads \ {t} :
           (Stopped(u) /\ loc[u].arr = loc[t].arr) =>
              /\ NoNewer(loc[t].arr, loc[u].newf) =>
                   loc[u].newf \in Range(LoadedNames(t))
              /\ \A k \in 1..loc[u].removed :
                    loc[u].old[k] \notin Range(LoadedNames(t))
              /\ \A f \in frag_dirs[loc[t].arr] \ frag_file[loc[t].arr] :
                    f \notin Range(LoadedNames(t))

C8_ConcurrentOpen ==
  \A a \in Arrays :
     ( /\ nfail = 0
       /\ ProcOf("t1") = ProcOf("t2")
       /\ \A t \in Threads : pc[t] \in {"idle", "done"} /\ HandlesOn(t, a) = 1 )
     => /\ HasEntry(ProcOf("t1"), a)
        /\ open_arrays[ProcOf("t1")][a].cnt = 2
        /\ ~fd_leak[ProcOf("t1")][a]
        /\ hnd["t1"][1].schema = hnd["t2"][1].schema

\* C9 as stated: when array_open has returned the error of a failed first
\* open, the refcount is back at the number of opens not yet closed, and
\* the entry is gone if that number is 0.
C9_FailedOpenRestoresRefcount ==
  \A t \in Threads :
     (pc[t] = "done" /\ res[t].st = "open_err") =>
        IF HasEntry(ProcOf(t), res[t].arr)
          THEN /\ Opens(ProcOf(t), res[t].arr) >= 1
               /\ open_arrays[ProcOf(t)][res[t].arr].cnt
                    = Opens(ProcOf(t), res[t].arr)
          ELSE Opens(ProcOf(t), res[t].arr) = 0

(***************************************************************************)
(* Properties of array_consolidate                                         *)
(***************************************************************************)
\* C14 as stated: array_consolidate returns success exactly when the
\* engine's consolidate, array_close, consolidation_finalize and the
\* array's finalize all succeeded, and an error otherwise.
C14_StepStatus ==
  \A t \in Threads :
     (pc[t] = "co_fin" /\ pc'[t] = "done") =>
        ( res'[t].st = "ok"
          <=> /\ loc[t].st_consolidate
              /\ loc[t].st_close
              /\ loc[t].st_cf
              /\ nfail' = nfail )

C14_ConsolidateStatus == [][C14_StepStatus]_vars

\* the step is the return of the consolidation_finalize of thread t with the
\* error of new_fragment->finalize()
FinalizeFails(t) == pc[t] = "cf_fin" /\ pc'[t] = "co_fin"

\* C15 as stated: when new_fragment->finalize() fails, consolidation_finalize
\* returns the error, and on return the new fragment has no fragment file
\* and every old fragment has its fragment file and its directory.
C15_StepAllOldVisible ==
  \A t \in Threads :
     FinalizeFails(t) =>
        /\ ~loc'[t].st_cf
        /\ loc[t].newf \notin frag_file'[loc[t].arr]
        /\ \A f \in Range(loc[t].old) :
              f \in frag_file'[loc[t].arr] /\ f \in frag_dirs'[loc[t].arr]

C15_AllOldVisible == [][C15_StepAllOldVisible]_vars

\* C15: a consolidation_finalize whose new_fragment->finalize() fails
\* returns the error; no step of the call up to that return changes a
\* fragment file or a fragment directory, and on return the new fragment
\* has no fragment file.
C15_StepNothingChanged ==
  \A t \in Threads :
     /\ ( /\ pc[t] \in {"cf_start", "cf_wait", "cf_fin"}
          /\ pc'[t] \in {"cf_wait", "cf_fin", "co_fin"}
          /\ pc'[t] # pc[t] )
        => (frag_file' = frag_file /\ frag_dirs' = frag_dirs)
     /\ FinalizeFails(t) =>
          /\ ~loc'[t].st_cf
          /\ ~loc'[t].published
          /\ loc'[t].removed = 0
          /\ loc[t].newf \notin frag_file'[loc[t].arr]

C15_FinalizeFailureChangesNothing == [][C15_StepNothingChanged]_vars

\* a consolidation_finalize of the fragments 1 and 2 returned the error of
\* finalize() (its descriptor of the lock file is still open): fragment 3
\* has a directory and no fragment file, 1 and 2 have both
C15_Witness ==
  \E t \in Threads :
     /\ pc[t] = "co_fin" /\ ~loc[t].st_cf /\ ~loc[t].published
     /\ cf_leak[ProcOf(t)][loc[t].arr]
     /\ loc[t].old = <<1, 2>> /\ loc[t].newf = 3
     /\ frag_dirs[loc[t].arr] = {1, 2, 3}
     /\ frag_file[loc[t].arr] = {1, 2}

(***************************************************************************)
(* Properties of the namespace specification                               *)
(***************************************************************************)
\* C10 as stated: every existing entity satisfies containment on its direct
\* parent: the parent of a workspace is no workspace, group, array or
\* metadata; the parent of a group or of an array is a workspace or a
\* group; the parent of a metadata is a workspace, a group or an array.
C10_Containment ==
  \A d \in dirs :
     LET parent == parent_dir(d)
     IN /\ is_workspace(FS, d) =>
             /\ ~is_workspace(FS, parent) /\ ~is_group(FS, parent)
             /\ ~is_array_dir(FS, parent) /\ ~is_metadata(FS, parent)
        /\ is_group(FS, d) =>
             is_workspace(FS, parent) \/ is_group(FS, parent)
        /\ is_array_dir(FS, d) =>
             is_workspace(FS, parent) \/ is_group(FS, parent)
        /\ is_metadata(FS, d) =>
             \/ is_workspace(FS, parent) \/ is_group(FS, parent)
             \/ is_array_dir(FS, parent)

\* containment in the behaviours without an injected I/O failure
C10_ContainmentNoFailure == ns_nfail = 0 => C10_Containment

\* the containment table: a directory of kind k may have parent p
ParentAllowed(k, p) ==
  CASE k = "workspace" ->
         /\ ~is_workspace(FS, p) /\ ~is_group(FS, p)
         /\ ~is_array_dir(FS, p) /\ ~is_metadata(FS, p)
    [] k = "group" -> is_workspace(FS, p) \/ is_group(FS, p)
    [] k = "array" -> is_workspace(FS, p) \/ is_group(FS, p)
    [] k = "metadata" ->
         is_workspace(FS, p) \/ is_group(FS, p) \/ is_array_dir(FS, p)

Kinds == {"workspace", "group", "array", "metadata"}

IsKind(k, d) ==
  CASE k = "workspace" -> is_workspace(FS, d)
    [] k = "group" -> is_group(FS, d)
    [] k = "array" -> is_array_dir(FS, d)
    [] k = "metadata" -> is_metadata(FS, d)

\* the call of this step returns an error and the filesystem is as before
Rejected == ns_res'.st = "err" /\ UNCHANGED <<dirs, files, schema_name>>

\* the step is a create or a move that the containment table forbids, or a
\* move to a directory that exists
ForbiddenCall ==
  \/ \E d \in Paths :
        \/ /\ ns_res'.op = "workspace_create"
           /\ ~ParentAllowed("workspace", parent_dir(d))
           /\ workspace_create(d)
        \/ /\ ns_res'.op = "group_create"
           /\ ~ParentAllowed("group", parent_dir(d))
           /\ group_create(d)
        \/ /\ ns_res'.op = "array_create"
           /\ ~ParentAllowed("array", parent_dir(d))
           /\ array_create(d)
        \/ /\ ns_res'.op = "metadata_create"
           /\ ~ParentAllowed("metadata", parent_dir(d))
           /\ metadata_create(d)
  \/ \E d \in Paths, e \in Paths :
        /\ ns_res'.op = "move"
        /\ \/ is_dir(FS, e)
           \/ \E k \in Kinds :
                 IsKind(k, d) /\ ~ParentAllowed(k, parent_dir(e))
        /\ move(d, e)

\* C11: a create whose parent directory is not allowed by the containment
\* table, a move of an entity to a parent that is not allowed for its kind,
\* and a move to a directory that exists, return an error and leave the
\* filesystem unchanged.
C11_StepRejected == Rejected \/ ~ForbiddenCall

C11_ContainmentRejected == [][C11_StepRejected]_vars

\* a metadata_create returned an error in the empty namespace, where the
\* parent of every path is the root or missing, so no parent is a workspace,
\* a group or an array
C11_Witness ==
  /\ ns_res = [op |-> "metadata_create", st |-> "err"]
  /\ dirs = {}
  /\ ns_nfail = 0

\* the filesystem after the step
FSAfter == [dirs |-> dirs', files |-> files', schema_name |-> schema_name']

IsKindIn(fs, k, d) ==
  CASE k = "workspace" -> is_workspace(fs, d)
    [] k = "group" -> is_group(fs, d)
    [] k = "array" -> is_array_dir(fs, d)
    [] k = "metadata" -> is_metadata(fs, d)

\* the step is a move(src, dst) of an entity of kind k
\* to a directory that does not exist (and does not lie below src) and
\* whose parent exists and is allowed for k by the containment table
AllowedMove(k, src, dst) ==
  /\ IsKind(k, src)
  /\ ~is_dir(FS, dst)
  /\ ~IsPrefix(src, dst)
  /\ is_dir(FS, parent_dir(dst))
  /\ ParentAllowed(k, parent_dir(dst))
  /\ move(src, dst)

\* move returned success, src is gone, dst has the kind k, and the schema
\* stored in an array or metadata dst carries the name dst
MovedAs(k, src, dst) ==
  /\ ns_res'.st = "ok"
  /\ ~is_dir(FSAfter, src)
  /\ IsKindIn(FSAfter, k, dst)
  /\ k \in {"array", "metadata"} =>
        /\ dst \in DOMAIN schema_name'
        /\ schema_name'[dst] = dst

C12_StepMove(k) ==
  (ns_res'.op = "move" /\ ns_nfail' = ns_nfail) =>
     \A src \in Paths, dst \in Paths :
        AllowedMove(k, src, dst) => MovedAs(k, src, dst)

\* C12 as stated: for every kind, a move (without I/O failure) of an entity
\* of that kind to a
\* directory that does not exist and whose parent satisfies containment
\* returns success; afterwards the source is gone, the destination has the
\* same kind, and the schema of an array or metadata carries the new name.
C12_MoveSucceeds == [][\A k \in Kinds : C12_StepMove(k)]_vars

\* in every state, a move without I/O failure of a workspace, a group or an
\* array to a directory that does not exist, does not lie below the source
\* and has an existing parent allowed for the kind would return success,
\* with the source gone, the destination of the same kind and, for an
\* array, the stored schema carrying the new name
C12_MoveResultExceptMetadata ==
  \A k \in Kinds \ {"metadata"}, src \in Paths, dst \in Paths :
     ( /\ IsKind(k, src)
       /\ ~is_dir(FS, dst)
       /\ ~IsPrefix(src, dst)
       /\ is_dir(FS, parent_dir(dst))
       /\ ParentAllowed(k, parent_dir(dst)) )
     => LET r == move_result(src, dst, FALSE)
        IN /\ r.ok
           /\ ~is_dir(r.fs, src)
           /\ IsKindIn(r.fs, k, dst)
           /\ k = "array" =>
                 /\ dst \in DOMAIN r.fs.schema_name
                 /\ r.fs.schema_name[dst] = dst

(***************************************************************************)
(* Properties of the registry specification with direct array_close        *)
(***************************************************************************)
\* the step is a direct array_close of thread t
CloseUnknown(t) ==
  /\ pc[t] = "idle"
  /\ pc'[t] = "done"
  /\ res'[t].op = "close"
  /\ ~HasEntry(ProcOf(t), res'[t].arr)

\* C13: an array_close of a path that has no entry in the registry returns
\* an error, and the entries of the registry and their refcounts are as
\* before.
C13_StepCloseUnknown ==
  \A t \in Threads :
     CloseUnknown(t) =>
        /\ res'[t].st = "err"
        /\ open_arrays' = open_arrays

C13_CloseUnknown == [][C13_StepCloseUnknown]_vars

\* a thread got the error of array_close for a2, which has no entry, while
\* the registry of its process holds the entry of a1 with refcount 1
C13_Witness ==
  \E t \in Threads :
     /\ pc[t] = "done"
     /\ res[t] = [op |-> "close", st |-> "err", arr |-> "a2"]
     /\ DOMAIN open_arrays[ProcOf(t)] = {"a1"}
     /\ open_arrays[ProcOf(t)]["a1"].cnt = 1
     /\ \E u \in ThreadsOf(ProcOf(t)) : HandlesOn(u, "a1") = 1

(***************************************************************************)
(* Properties of sort_fragment_names                                       *)
(***************************************************************************)
\* the text of name after its last '_'
LastField(name) ==
  LET us == {j \in DOMAIN name : name[j] = "_"}
      last == CHOOSE j \in us : \A k \in us : k <= j
  IN SubSeq(name, last + 1, Len(name))

\* name is "__" uuid "_" timestamp with a non-empty uuid and a timestamp of
\* digits
WellFormed(name) ==
  /\ Len(name) >= 5
  /\ name[1] = "_" /\ name[2] = "_"
  /\ name[3] # "_"
  /\ \E j \in 4..Len(name) : name[j] = "_"
  /\ Len(LastField(name)) > 0
  /\ \A k \in DOMAIN LastField(name) : IsDigit(LastField(name)[k])

\* the uuid of a well-formed name holds no '_'
PlainUuid(name) == Cardinality({j \in 3..Len(name) : name[j] = "_"}) = 1

\* the timestamp embedded in a well-formed name
Timestamp(name) == Decimal(LastField(name))

IndexIn(names, name) == CHOOSE i \in DOMAIN names : names[i] = name

C17_LastFieldIsTimestamp ==
  ( /\ sf_pc = "done"
    /\ \A i \in DOMAIN sf_names : WellFormed(sf_names[i]) )
  => \A i \in DOMAIN sf_names :
        sf_t_pos[i] = <<Timestamp(sf_names[i]), i - 1>>

\* C18 as stated: when the timestamp field of a fragment name is missing or
\* malformed, the load of the fragment names reports an error.
C18_MalformedIsError ==
  ( /\ sf_pc = "done"
    /\ \E i \in DOMAIN sf_names : ~WellFormed(sf_names[i]) )
  => sf_st = "err"

(***************************************************************************)
(* Properties of real_dir                                                  *)
(***************************************************************************)
\* C19 as stated: real_dir(real_dir(p)) = real_dir(p) for every p.
C19_Idempotent == rd_pc = "done" => rd_again = rd_ret

\* real_dir is idempotent on the arguments it does not turn into ""
C19_IdempotentWhenValid ==
  (rd_pc = "done" /\ rd_ret # <<>>) => rd_again = rd_ret

\* the components of an absolute path: the non-empty pieces between '/'
RECURSIVE Components(_, _)
Components(p, piece) ==
  IF Len(p) = 0 THEN (IF piece = <<>> THEN <<>> ELSE <<piece>>)
  ELSE IF Head(p) = "/"
         THEN (IF piece = <<>> THEN <<>> ELSE <<piece>>)
                \o Components(Tail(p), <<>>)
         ELSE Components(Tail(p), Append(piece, Head(p)))

\* the components that are left, last first, when '.' is dropped and each
\* '..' pops one; Underflow when a '..' finds nothing to pop
Underflow == <<<<"!">>>>

RECURSIVE Resolved(_)
Resolved(cs) ==
  IF Len(cs) = 0 THEN <<>>
  ELSE LET before == Resolved(SubSeq(cs, 1, Len(cs) - 1))
           c == cs[Len(cs)]
       IN IF before = Underflow THEN Underflow
          ELSE IF c = <<".">> THEN before
          ELSE IF c = <<".", ".">>
                 THEN IF Len(before) = 0 THEN Underflow
                      ELSE SubSeq(before, 1, Len(before) - 1)
          ELSE Append(before, c)

RECURSIVE Joined(_)
Joined(cs) ==
  IF Len(cs) = 0 THEN <<>>
  ELSE <<"/">> \o Head(cs) \o Joined(Tail(cs))

\* C20: for an absolute argument real_dir returns "" when a '..' has no
\* component to pop, and otherwise the components that are left after
\* dropping '.' and popping one per '..', each preceded by one '/' (the
\* root "/" when none is left): the result starts with '/', has no '.' or
\* '..' component and no '/' at its end unless it is the root.
C20_Canonical ==
  (rd_pc # "call" /\ starts_with(rd_dir, <<"/">>)) =>
     LET left == Resolved(Components(rd_dir, <<>>))
     IN IF left = Underflow THEN rd_ret = <<>>
        ELSE /\ rd_ret = (IF Len(left) = 0 THEN <<"/">> ELSE Joined(left))
             /\ Head(rd_ret) = "/"
             /\ \A i \in DOMAIN Components(rd_ret, <<>>) :
                   /\ Components(rd_ret, <<>>)[i] # <<".">>
                   /\ Components(rd_ret, <<>>)[i] # <<".", ".">>
             /\ rd_ret[Len(rd_ret)] = "/" => rd_ret = <<"/">>

\* real_dir("//a/./") returned "/a" and real_dir("/a/../") returned "/"
C20_Witness ==
  /\ rd_pc = "ret"
  /\ \/ rd_dir = <<"/", "/", "a", "/", ".", "/">> /\ rd_ret = <<"/", "a">>
     \/ /\ rd_dir = <<"/", "a", "/", ".", ".", "/">>
        /\ rd_ret = <<"/">>

(***************************************************************************)
(* Properties of ls                                                        *)
(***************************************************************************)
\* the sub-directories of parent that are a workspace, a group, an array or
\* a metadata, each with its kind
EntityChildren(parent) ==
  {c \in {<<d[Len(d)], k>> : d \in dirs, k \in Kinds} :
     \E d \in dirs : /\ Len(d) = Len(parent) + 1
                     /\ IsPrefix(parent, d)
                     /\ d[Len(d)] = c[1]
                     /\ IsKind(c[2], d)}

\* C21: ls(parent) with capacity dir_num returns an error when parent has
\* more than dir_num sub-directories that are workspaces, groups, arrays or
\* metadata; else it returns exactly these, each once and with its kind,
\* and their number in dir_num.
C21_LsListsEntities ==
  ls_pc = "done" =>
     IF Cardinality(EntityChildren(ls_parent)) > ls_cap
       THEN ~ls_out.ok
       ELSE /\ ls_out.ok
            /\ Range(ls_out.dirs) = EntityChildren(ls_parent)
            /\ Len(ls_out.dirs) = Cardinality(EntityChildren(ls_parent))
            /\ ls_out.dir_num = Len(ls_out.dirs)

\* ls of the workspace /x that holds a plain directory, an array with a
\* metadata inside and a group returned the array and the group
C21_Witness ==
  /\ ls_pc = "done"
  /\ ls_parent = LsParent
  /\ dirs = {<<"x">>, <<"x", "x">>, <<"x", "y">>, <<"x", "y", "x">>,
             <<"x", "z">>}
  /\ ls_cap = 2
  /\ ls_out = [ok |-> TRUE, dirs |-> <<<<"y", "array">>, <<"z", "group">>>>,
               dir_num |-> 2]

\* ls returned the buffer overflow error
C21_WitnessOverflow ==
  /\ ls_pc = "done"
  /\ ~ls_out.ok
  /\ Cardinality(EntityChildren(ls_parent)) = ls_cap + 1

(***************************************************************************)
(* Properties of clear and delete_entire                                   *)
(***************************************************************************)
\* the sub-directories of p that are groups, arrays or metadata after the
\* step
ChildEntitiesAfter(p) ==
  {d \in dirs' : /\ Len(d) = Len(p) + 1
                 /\ IsPrefix(p, d)
                 /\ \E k \in Kinds : IsKindIn(FSAfter, k, d)}

\* p is an entity and the step is a clear(p) that returns Ok
ClearOk(p) ==
  /\ ns_res'.op = "clear"
  /\ ns_res'.st = "ok"
  /\ \E k \in Kinds : IsKind(k, p)
  /\ clear(p)

DeleteOk(p) ==
  /\ ns_res'.op = "delete_entire"
  /\ ns_res'.st = "ok"
  /\ \E k \in Kinds : IsKind(k, p)
  /\ delete_entire(p)

\* C22: after a clear(p) that returns Ok, p is of the kind it was and has
\* no sub-directory that is a group, an array or a metadata; after a
\* delete_entire(p) that returns Ok, p is not a directory.
C22_ClearAndDelete ==
  [][\A p \in Paths :
        /\ ClearOk(p) =>
              /\ \A k \in Kinds : IsKind(k, p) <=> IsKindIn(FSAfter, k, p)
              /\ ChildEntitiesAfter(p) = {}
        /\ DeleteOk(p) => p \notin dirs']_vars

\* C22 without the arrays: clear of a workspace, a group or a metadata, and
\* delete_entire of any entity
C22_ClearExceptArray ==
  [][\A p \in Paths :
        /\ ClearOk(p) =>
              /\ \A k \in Kinds : IsKind(k, p) <=> IsKindIn(FSAfter, k, p)
              /\ is_array_dir(FS, p) \/ ChildEntitiesAfter(p) = {}
        /\ DeleteOk(p) => p \notin dirs']_vars

(***************************************************************************)
(* Properties of array_finalize                                            *)
(***************************************************************************)
\* C23: an array_finalize of a read-mode handle that returns without
\* calling array_close (it returns in the step it is called in) has
\* decreased the refcount of the handle's array by one, the entry being
\* removed at 0.
C23_FinalizeClosesOnce ==
  [][\A t \in Threads :
        (pc[t] = "idle" /\ pc'[t] = "done" /\ res'[t].op = "fin") =>
           LET p == ProcOf(t)
               a == res'[t].arr
           IN /\ HasEntry(p, a)
              /\ IF open_arrays[p][a].cnt = 1
                   THEN a \notin DOMAIN open_arrays'[p]
                   ELSE /\ a \in DOMAIN open_arrays'[p]
                        /\ open_arrays'[p][a].cnt = open_arrays[p][a].cnt - 1]_vars

(***************************************************************************)
(* Properties of the comparators                                           *)
(***************************************************************************)
\* r, a function of the pairs of operands, is a three-valued comparison:
\* its values are -1, 0, 1, r(a,b) = -r(b,a), and r(a,c) is not above (is
\* below) 0 when r(a,b) and r(b,c) are not above (are below) 0
ThreeWay(r) ==
  /\ \A pr \in CmpPairs : r[pr] \in {-1, 0, 1}
  /\ r[<<"a", "b">>] = 0 - r[<<"b", "a">>]
  /\ (r[<<"a", "b">>] <= 0 /\ r[<<"b", "c">>] <= 0) => r[<<"a", "c">>] <= 0
  /\ (r[<<"a", "b">>] < 0 /\ r[<<"b", "c">>] <= 0) => r[<<"a", "c">>] < 0
  /\ (r[<<"a", "b">>] <= 0 /\ r[<<"b", "c">>] < 0) => r[<<"a", "c">>] < 0

\* C24: for integer coordinates and dim_num in 1..3, cmp_row_order,
\* cmp_col_order and cmp_row_order with ids return -1, 0 or 1, are
\* antisymmetric and transitive, return 0 exactly for equal operands, and
\* cmp_row_order and cmp_col_order agree when dim_num is 1.
C24_Comparators ==
  cmp_pc = "done" =>
    /\ ThreeWay(cmp_out.row)
    /\ ThreeWay(cmp_out.col)
    /\ ThreeWay(cmp_out.id)
    /\ \A pr \in CmpPairs :
          /\ cmp_out.row[pr] = 0 <=>
                cmp_in[pr[1]].coords = cmp_in[pr[2]].coords
          /\ cmp_out.col[pr] = 0 <=>
                cmp_in[pr[1]].coords = cmp_in[pr[2]].coords
          /\ cmp_out.id[pr] = 0 <=> cmp_in[pr[1]] = cmp_in[pr[2]]
    /\ cmp_in.dim_num = 1 => cmp_out.row = cmp_out.col

\* three operands of two dimensions that the row order and the column
\* order rank in opposite ways, and that the ids rank a third way
C24_Witness ==
  /\ cmp_pc = "done"
  /\ cmp_in.dim_num = 2
  /\ cmp_out.row[<<"a", "b">>] = -1
  /\ cmp_out.row[<<"b", "c">>] = -1
  /\ cmp_out.col[<<"a", "b">>] = 1
  /\ cmp_out.col[<<"b", "c">>] = 1
  /\ cmp_out.id[<<"a", "b">>] = 1

(***************************************************************************)
(* Properties of the locks                                                 *)
(***************************************************************************)
\* the entries of t's process whose mutex t holds
EntryLocksOf(t) ==
  {a \in DOMAIN open_arrays[ProcOf(t)] : open_arrays[ProcOf(t)][a].mtx = t}

\* C25: a thread whose array_open has returned an error (from the filelock,
\* the schema-load or the book-keeping-load step) holds no entry lock.
C25_OpenErrorReleasesEntryLock ==
  \A t \in Threads :
     (pc[t] = "done" /\ res[t].st = "open_err") => EntryLocksOf(t) = {}

\* C26: a thread whose array_close has returned, with success or with an
\* error, does not hold the registry lock.
C26_CloseReleasesRegistryLock ==
  \A t \in Threads :
     (pc[t] = "done" /\ res[t].op \in {"close", "fin"}) =>
        reg_mtx[ProcOf(t)] # t

\* thread t is at a request of the registry lock (open_array_mtx_lock in
\* array_get_open_array_entry or array_close)
RequestsRegistryLock(t) == pc[t] \in {"go_lock", "ac_lock"}

\* thread t is at a request of an entry lock (mutex_lock in array_open or
\* array_close)
RequestsEntryLock(t) == pc[t] \in {"ao_lock", "ac_elock"}

\* C27: no thread requests the registry lock while it holds an entry lock,
\* and no thread requests an entry lock or the registry lock while its
\* consolidation_finalize holds the exclusive filelock.
C27_LockOrder ==
  \A t \in Threads :
     /\ RequestsRegistryLock(t) => EntryLocksOf(t) = {}
     /\ (RequestsRegistryLock(t) \/ RequestsEntryLock(t)) =>
          pc[t] \notin {"cf_fin", "cf_rm", "cf_unlock"}

\* C27 as long as no call has failed
C27_LockOrderNoFailure == nfail = 0 => C27_LockOrder

\* the step ends process p: its memory, the registry with it, is gone
Crashes(p) == \E t \in ThreadsOf(p) : pc[t] # "crashed" /\ pc'[t] = "crashed"

\* C28: a step that inserts an entry into or erases one from the registry
\* map of a process is taken by a thread that holds the registry lock of
\* the process.
C28_MapChangesUnderRegistryLock ==
  [][\A p \in Procs :
        DOMAIN open_arrays'[p] # DOMAIN open_arrays[p] =>
           \/ Crashes(p)
           \/ \E t \in ThreadsOf(p) : Acts(t) /\ reg_mtx[p] = t]_vars

\* an entry of a1 was inserted and erased again: its only opener has
\* finalized its Array object
C28_Witness ==
  /\ pc["t1"] = "done"
  /\ res["t1"] = [op |-> "fin", st |-> "ok", arr |-> "a1"]
  /\ ~HasEntry(ProcOf("t1"), "a1")
  /\ nfail = 0

Refcount(p, a) == IF HasEntry(p, a) THEN open_arrays[p][a].cnt ELSE 0
RefcountAfter(p, a) ==
  IF a \in DOMAIN open_arrays'[p] THEN open_arrays'[p][a].cnt ELSE 0

\* C29 as stated: a step that increments or decrements the refcount of an
\* entry is taken by a thread that holds the mutex of the entry.
C29_RefcountUnderEntryLock ==
  [][\A p \in Procs, a \in Arrays :
        (HasEntry(p, a) /\ RefcountAfter(p, a) # Refcount(p, a)) =>
           \/ Crashes(p)
           \/ \E t \in ThreadsOf(p) :
                 Acts(t) /\ open_arrays[p][a].mtx = t]_vars

\* C29: a step that increments or decrements the refcount of an entry is
\* taken by a thread that holds the registry lock; a step that decrements
\* it is taken by a thread that also holds the mutex of the entry.
C29_RefcountUnderRegistryLock ==
  [][\A p \in Procs, a \in Arrays :
        RefcountAfter(p, a) # Refcount(p, a) =>
           \/ Crashes(p)
           \/ \E t \in ThreadsOf(p) :
                 /\ Acts(t)
                 /\ reg_mtx[p] = t
                 /\ RefcountAfter(p, a) < Refcount(p, a) =>
                      open_arrays[p][a].mtx = t]_vars

\* the entry of a1 was incremented to 2 by a second open and decremented
\* again by the array_finalize of t2
C29_Witness ==
  /\ pc["t2"] = "done"
  /\ res["t2"] = [op |-> "fin", st |-> "ok", arr |-> "a1"]
  /\ HandlesOn("t1", "a1") = 1
  /\ ProcOf("t1") = ProcOf("t2")
  /\ Refcount(ProcOf("t1"), "a1") = 1

\* thread t is in the first open of array a, in fcntl(F_SETLKW) for the
\* shared filelock, which another process holds exclusively
BlockedOnFilelock(t, a) ==
  /\ pc[t] = "ao_fl_wait"
  /\ loc[t].arr = a
  /\ ~CanLock(ProcOf(t), a, "shared")

\* thread u is inside the array_open of an array_init of array b
Opening(u, b) ==
  /\ loc[u].arr = b
  /\ pc[u] \in {"go_lock", "go_body", "ao_lock", "ao_fl_wait", "ao_load"}

\* the array_init of array b by thread u has returned Ok
Opened(u, b) ==
  pc[u] = "done" /\ res[u] = [op |-> "init", st |-> "ok", arr |-> b]

\* C30: a thread blocked in the first open of a1 on the filelock of a1 does
\* not hold the registry lock, and an open of a2 that another thread is in
\* while the first is blocked returns, the first being blocked still.
C30_OtherArrayOpens ==
  /\ [](\A t \in Threads :
          BlockedOnFilelock(t, "a1") => reg_mtx[ProcOf(t)] # t)
  /\ \A t \in Threads, u \in Threads :
        (BlockedOnFilelock(t, "a1") /\ Opening(u, "a2")) ~>
           (BlockedOnFilelock(t, "a1") /\ Opened(u, "a2"))

\* t1 is blocked in the first open of a1 and the open of a2 by t2, begun
\* after t1 was blocked, has returned
C30_Witness ==
  /\ BlockedOnFilelock("t1", "a1")
  /\ Opened("t2", "a2")
  /\ HasEntry("p1", "a2")
  /\ open_arrays["p1"]["a1"].mtx = "t1"

(***************************************************************************)
(* Properties of the entries                                               *)
(***************************************************************************)
\* the fields of an entry that the first open loads
Loaded(e) ==
  <<e.array_schema, e.fragment_names, e.book_keeping, e.consolidation_filelock>>

\* C31: an entry whose first open has completed (its schema is loaded)
\* keeps its schema, fragment names, book-keeping and filelock descriptor
\* in every step that does not destroy it.
C31_LoadedFieldsKept ==
  [][\A p \in Procs, a \in Arrays :
        (/\ HasEntry(p, a)
         /\ a \in DOMAIN open_arrays'[p]
         /\ open_arrays[p][a].array_schema # 0) =>
           Loaded(open_arrays'[p][a]) = Loaded(open_arrays[p][a])]_vars

\* C31 for the entries of arrays that had fragments at the first open and
\* as long as no call has failed
C31_LoadedFieldsKeptWithFragments ==
  [][\A p \in Procs, a \in Arrays :
        (/\ HasEntry(p, a)
         /\ a \in DOMAIN open_arrays'[p]
         /\ open_arrays[p][a].array_schema # 0
         /\ Len(open_arrays[p][a].fragment_names) > 0
         /\ nfail' = 0) =>
           Loaded(open_arrays'[p][a]) = Loaded(open_arrays[p][a])]_vars

\* no thread of process p is inside a call
Quiescent(p) ==
  /\ reg_mtx[p] = NoThread
  /\ \A t \in ThreadsOf(p) : pc[t] \in {"idle", "done"}

\* the Array objects on array a that threads of process p hold: the opens
\* that returned Ok and were not closed
HandlesIn(p, a) ==
  Cardinality({<<t, i>> \in ThreadsOf(p) \X (1..MaxHandles) :
                 i \in DOMAIN hnd[t] /\ hnd[t][i].arr = a})

\* C32, in the states where the registry lock is free and no call is under
\* way: every entry has a refcount above 0 that is the number of opens of
\* its array that returned Ok and were not closed.
C32_RefcountIsOpenHandles ==
  \A p \in Procs :
     Quiescent(p) =>
        \A a \in DOMAIN open_arrays[p] :
           /\ open_arrays[p][a].cnt > 0
           /\ open_arrays[p][a].cnt = HandlesIn(p, a)

(***************************************************************************)
(* Properties of the handles                                               *)
(***************************************************************************)
\* C33: a step that destroys the entry of an array, the end of the process
\* apart, is taken when no thread of the process holds an Array or
\* Metadata object that it opened in read mode on the array and has not
\* finalized.
C33_NoDestroyWhileHandle ==
  [][\A p \in Procs, a \in Arrays :
        (HasEntry(p, a) /\ a \notin DOMAIN open_arrays'[p] /\ ~Crashes(p)) =>
           HandlesIn(p, a) = 0]_vars

(***************************************************************************)
(* Properties of the filelock                                              *)
(***************************************************************************)
\* C34: while an array has an entry whose first open completed, the
\* process holds the filelock of the array; when the array has no entry,
\* the process holds no shared lock on it and no lock descriptor that an
\* entry has left open.
C34_SharedLockWhileEntry ==
  \A p \in Procs, a \in Arrays :
     IF HasEntry(p, a)
       THEN open_arrays[p][a].array_schema # 0 => flock[a][p] # "none"
       ELSE flock[a][p] # "shared" /\ ~fd_leak[p][a]

\* C35: when the consolidation_finalize of a thread has returned an error
\* and no other thread of the process is in the exclusive phase on the
\* array, the process does not hold the exclusive filelock of the array.
C35_ExclusiveReleasedOnError ==
  \A t \in Threads :
     (/\ pc[t] = "co_fin"
      /\ ~loc[t].st_cf
      /\ \A u \in ThreadsOf(ProcOf(t)) : ~InExclusivePhase(u, loc[t].arr)) =>
        flock[loc[t].arr][ProcOf(t)] # "excl"

(***************************************************************************)
(* Properties of a failed array_init or metadata_init                      *)
(***************************************************************************)
\* the step is the return of an error from the array_open of thread t,
\* whose array_get_open_array_entry has incremented the refcount
OpenFails(t) ==
  /\ pc[t] \in {"ao_lock", "ao_load"}
  /\ pc'[t] = "done"
  /\ res'[t].st # "ok"
  /\ HasEntry(ProcOf(t), loc[t].arr)

\* C36: an array_init in read mode that returns an error from array_open
\* takes back the increment of the refcount that it made (and removes the
\* entry at 0); no step of a metadata_init in write mode, which made no
\* increment, changes the registry.
C36_FailedInitRestoresRegistry ==
  [][\A t \in Threads :
        /\ OpenFails(t) =>
              RefcountAfter(ProcOf(t), loc[t].arr) =
                 Refcount(ProcOf(t), loc[t].arr) - 1
        /\ (loc[t].op = "minit_w" /\ Acts(t) /\ pc'[t] # "crashed") =>
              open_arrays' = open_arrays]_vars

(***************************************************************************)
(* Properties of sort_fragment_names as a rearrangement                    *)
(***************************************************************************)
\* the number of positions of the list names that hold name
Occurrences(names, name) == Cardinality({i \in DOMAIN names : names[i] = name})

\* C37: after sort_fragment_names every name occurs in the output as often
\* as in the input, also for names without '_' after the "__" prefix.
C37_SortIsPermutation ==
  sf_pc = "done" =>
     /\ Len(sf_sorted) = Len(sf_names)
     /\ \A name \in FragNames :
           Occurrences(sf_sorted, name) = Occurrences(sf_names, name)

(***************************************************************************)
(* Termination of the calls                                                *)
(***************************************************************************)
\* thread t is not inside a call
Returned(t) == pc[t] \in {"idle", "done"}

\* C38: with the scheduling of SpecFair, in which loads may fail, every
\* call of every thread eventually returns.
C38_EveryCallReturns == \A t \in Threads : []<>Returned(t)

(***************************************************************************)
(* Properties of a failed move                                             *)
(***************************************************************************)
\* C39: a move that returns an error leaves the filesystem as it was: the
\* directories, the special files and the stored schemas are unchanged.
C39_FailedMoveChangesNothing ==
  [][(ns_res'.op = "move" /\ ns_res'.st = "err") =>
        /\ dirs' = dirs
        /\ files' = files
        /\ schema_name' = schema_name]_vars

(***************************************************************************)
(* Properties of gunzip_unknown_output_size                                *)
(***************************************************************************)
\* C40: before each chunk is copied the allocated size of out is at least
\* out_size + inflated_bytes, and out_size never exceeds the allocated
\* size, for every allocated size >= 1 at entry.
C40_BufferHoldsChunk ==
  /\ gz_pc = "memcpy" => gz_avail_out >= gz_out_size + gz_inflated
  /\ gz_pc # "idle" => gz_out_size <= gz_avail_out

====
